---------------------------- MODULE Spec2Model ----------------------------
(***************************************************************************)
(* Graph Gateway core of mcp-microsoft365: the OAuth2 token manager        *)
(* (core/auth.ts), the request dispatcher (core/graph-client.ts) and the   *)
(* error taxonomy (core/errors.ts), as a state machine of overlapping      *)
(* asynchronous calls sharing the module-level tokenCache.                 *)
(*                                                                         *)
(* A step of the model is one synchronous run of JavaScript between two    *)
(* awaits; the environment (token endpoint, Graph API, clock) chooses      *)
(* every response.                                                         *)
(***************************************************************************)
EXTENDS Integers, Sequences, FiniteSets, TLC

\* ------------------------------------------------------------------ bounds
NumCalls == 3          \* overlapping getAccessToken() calls (Spec)
NumRequests == 1       \* overlapping request() executions (SpecRequest)
NumRawCalls == 2       \* overlapping getText() and download() calls (SpecRaw)
NumClearCalls == 2     \* overlapping getAccessToken() calls (SpecClear)
MaxTicks == 2          \* clock advances
MaxEndpointLen == 3    \* pieces of an endpoint string (SpecUrl)
MaxParams == 2         \* entries of a parameter map (SpecUrl)

\* --------------------------------------------------------- program constants
SAFETY_MARGIN_MS == 60000
MS_PER_SECOND == 1000

TokenCalls == 1..NumCalls
Requests == 1..NumRequests
RawCalls == 1..NumRawCalls
ClearCalls == 1..NumClearCalls
TickMs == SAFETY_MARGIN_MS \div 2

\* ------------------------------------------------------- JavaScript values
\* string-valued fields: a string or undefined
Undefined == [t |-> "undefined", s |-> ""]
Str(s) == [t |-> "string", s |-> s]
\* number-valued fields: a number, NaN or undefined
UndefinedNum == [t |-> "undefined", v |-> 0]
NaN == [t |-> "NaN", v |-> 0]
Num(n) == [t |-> "number", v |-> n]

\* truthiness of a string-valued field (undefined and '' are falsy)
Truthy(x) == x.t = "string" /\ x.s # ""
\* a || b
OrElse(a, b) == IF Truthy(a) THEN a ELSE b
\* `${x}`
Template(x) == IF x.t = "undefined" THEN "undefined" ELSE x.s
\* a * b and a + b on numbers; undefined or NaN operands give NaN
Times(a, n) == IF a.t = "number" THEN Num(a.v * n) ELSE NaN
Plus(n, b) == IF b.t = "number" THEN Num(n + b.v) ELSE NaN
\* a > n; every comparison with NaN is false
Greater(a, n) == a.t = "number" /\ a.v > n

\* ------------------------------------------------------------------ strings
\* a string whose characters matter is a sequence of pieces: one-character
\* pieces for the characters the code or the URL parser inspects ("/", ".",
\* "$", " "), longer pieces for runs of letters and digits that pass through
GRAPH_BASE_URL == <<"https://graph.microsoft.com", "/", "v1.0">>
GRAPH_BETA_URL == <<"https://graph.microsoft.com", "/", "beta">>

\* endpoint strings: every sequence of at most MaxEndpointLen pieces
EndpointPieces == {"/", ".", "me"}
SeqsUpTo(S, n) == UNION { [1..k -> S] : k \in 0..n }
Endpoints == SeqsUpTo(EndpointPieces, MaxEndpointLen)

\* parameter values: undefined, null, a string, a number or a boolean
ValUndefined == [t |-> "undefined", s |-> <<>>, n |-> 0, b |-> FALSE]
ValNull == [t |-> "null", s |-> <<>>, n |-> 0, b |-> FALSE]
ValString(s) == [t |-> "string", s |-> s, n |-> 0, b |-> FALSE]
ValNumber(n) == [t |-> "number", s |-> <<>>, n |-> n, b |-> FALSE]
ValBoolean(b) == [t |-> "boolean", s |-> <<>>, n |-> 0, b |-> b]
\* a body argument can also be an object
ValObject(name) == [t |-> "object", s |-> <<name>>, n |-> 0, b |-> FALSE]
\* truthiness of a value
IsTruthy(v) ==
    \/ v.t = "object"
    \/ v.t = "string" /\ v.s # <<>>
    \/ v.t = "number" /\ v.n # 0
    \/ v.t = "boolean" /\ v.b
ParamValues ==
    {ValUndefined, ValNull, ValString(<<>>), ValString(<<"a", " ", "b">>),
     ValNumber(0), ValBoolean(FALSE)}
ParamKeys == {<<"$", "top">>, <<"filter">>, <<"q">>}
Entry(k, v) == [key |-> k, value |-> v]
\* parameter maps as Object.entries lists them: entries with distinct keys
ParamMaps ==
    { m \in SeqsUpTo([key : ParamKeys, value : ParamValues], MaxParams) :
        \A i, j \in DOMAIN m : i # j => m[i].key # m[j].key }

\* the arguments of a buildUrl call
NoUrlArgs == [endpoint |-> <<>>, params |-> <<>>, useBeta |-> FALSE]
UrlArgs == [endpoint : Endpoints, params : ParamMaps, useBeta : BOOLEAN]
NotBuilt == [done |-> FALSE, href |-> <<>>]
Built(href) == [done |-> TRUE, href |-> href]

\* ------------------------------------------------------------ token endpoint
\* the token strings the endpoint hands out, one per issuance request
TokenNames == <<"tokA", "tokB", "tokC", "tokD", "tokE", "tokF">>
IssuedToken(p) == TokenNames[p]
\* lifetimes (seconds) a response body can report
ExpiresInValues == {0, 90}

\* parsed response bodies: unparsable text, JSON null, or an object
BodyUnparsable == [parse |-> "fail", error |-> Undefined, error_description |-> Undefined,
                   access_token |-> Undefined, expires_in |-> UndefinedNum]
BodyNull == [parse |-> "null", error |-> Undefined, error_description |-> Undefined,
             access_token |-> Undefined, expires_in |-> UndefinedNum]
BodyObject(err, desc, tok, exp) ==
    [parse |-> "object", error |-> err, error_description |-> desc,
     access_token |-> tok, expires_in |-> exp]
\* the bodies the endpoint can answer the request of call p with: malformed
\* ones, rejections, and bodies with or without access_token and expires_in
TokenBodies(p) ==
    {BodyUnparsable, BodyNull,
     BodyObject(Str("invalid_client"), Str("bad secret"), Undefined, UndefinedNum),
     BodyObject(Str("invalid_client"), Undefined, Undefined, UndefinedNum),
     BodyObject(Undefined, Undefined, Undefined, Num(90)),
     BodyObject(Undefined, Undefined, Str(IssuedToken(p)), UndefinedNum)} \cup
    { BodyObject(Undefined, Undefined, Str(IssuedToken(p)), Num(e)) : e \in ExpiresInValues }

\* ------------------------------------------------------------------- errors
\* name, message (its literal prefix and its interpolated part), and the
\* GraphApiError fields statusCode, code, requestId
NoError ==
    [name |-> "none", message |-> <<>>, statusCode |-> 0, code |-> Undefined,
     requestId |-> Undefined, field |-> ""]
AuthError(msg) ==
    [name |-> "AuthError", message |-> msg, statusCode |-> 0, code |-> Undefined,
     requestId |-> Undefined, field |-> ""]
TypeError(msg) ==
    [name |-> "TypeError", message |-> msg, statusCode |-> 0, code |-> Undefined,
     requestId |-> Undefined, field |-> ""]
GraphApiError(msg, statusCode, code, requestId) ==
    [name |-> "GraphApiError", message |-> msg, statusCode |-> statusCode, code |-> code,
     requestId |-> requestId, field |-> ""]
\* new ValidationError(message, field)
ValidationError(msg, field) ==
    [name |-> "ValidationError", message |-> msg, statusCode |-> 0, code |-> Undefined,
     requestId |-> Undefined, field |-> field]

\* -------------------------------------------------------------- token cache
NullCache == [present |-> FALSE, accessToken |-> Undefined, expiresAt |-> UndefinedNum]
Credential(tok, exp) == [present |-> TRUE, accessToken |-> tok, expiresAt |-> exp]
\* what a call that processed a success response built its Credential from:
\* the parsed body and Date.now() at that moment
NoWrite == [by |-> 0, data |-> BodyNull, at |-> 0]
Write(p, data, t) == [by |-> p, data |-> data, at |-> t]

\* ------------------------------------------------------------- Graph API
Methods == {"GET", "POST", "PATCH", "DELETE"}
Statuses == {200, 202, 204, 500}
\* the body of a fetch call: none, or the JSON text
NoBody == [present |-> FALSE, text |-> <<>>]
JsonBody(text) == [present |-> TRUE, text |-> text]
\* a fetch call: its URL, method, Authorization and Accept headers and body,
\* and the argument it was built from (the body of request(), the accept
\* of getText())
NoRequest ==
    [url |-> <<>>, method |-> "", authorization |-> <<>>, accept |-> "", body |-> NoBody,
     given |-> ValUndefined]
\* the body arguments of request(): none, an object, and the falsy values
\* false, 0, '' and null
BodyArgs ==
    {ValUndefined, ValObject("message"), ValBoolean(FALSE), ValNumber(0), ValString(<<>>),
     ValNull}
PlainBodyArgs == {ValUndefined, ValObject("message")}
\* the targets of request(): an endpoint on the stable or the preview surface
RequestTargets ==
    { [endpoint |-> <<"me">>, params |-> <<Entry(<<"$", "top">>, ValNumber(0))>>,
       useBeta |-> beta] : beta \in BOOLEAN }
NoResult == [type |-> "none", payload |-> ""]
SuccessMarker == [type |-> "successMarker", payload |-> ""]
Payload(name) == [type |-> "data", payload |-> name]

\* the error member of a parsed Graph body
NoErrorObject ==
    [present |-> FALSE, code |-> Undefined, message |-> Undefined, requestId |-> Undefined]
ErrorObject(code, message, requestId) ==
    [present |-> TRUE, code |-> code, message |-> message, requestId |-> requestId]
\* response texts: raw characters, what JSON.parse makes of them, the parsed
\* body's error member
Chars(n) == [i \in 1..n |-> "x"]
GraphText(raw, parse, name, err) == [raw |-> raw, parse |-> parse, name |-> name, error |-> err]
GraphTexts ==
    { GraphText(<<>>, "empty", "", NoErrorObject),
      GraphText(Chars(3), "fail", "", NoErrorObject),
      GraphText(Chars(6), "object", "listWithNextLink", NoErrorObject),
      GraphText(Chars(7), "object", "errorBody",
                ErrorObject(Str("Forbidden"), Str("Access denied"), Str("req-1"))) }

\* raw modes: the pre-authorized content URLs of download(), the endpoints and
\* accept arguments of getText(), and the responses to both
DownloadUrls == {<<"https://contoso.example/content?tempauth=1">>}
TextEndpoints == {<<"/", "me">>, <<"me">>}
AcceptArgs == {ValUndefined, ValString(<<"text/plain">>)}
RawStatuses == {200, 404}
RawTexts == {"", "WEBVTT"}
TextResult(text) == [type |-> "text", payload |-> text]

\* the responses the Graph API can hold ready for one request: every status
\* with every body text (empty; not JSON, short and longer than 100
\* characters; JSON null; an object; objects with an error member that has or
\* lacks a code and a request id)
SUBSTRING_LIMIT == 100
DispatchStatuses == {200, 202, 204, 403, 500}
DispatchTexts ==
    { GraphText(<<>>, "empty", "", NoErrorObject),
      GraphText(Chars(3), "fail", "", NoErrorObject),
      GraphText(Chars(SUBSTRING_LIMIT + 1), "fail", "", NoErrorObject),
      GraphText(Chars(4), "null", "", NoErrorObject),
      GraphText(Chars(6), "object", "item", NoErrorObject),
      GraphText(Chars(7), "object", "errorBody",
                ErrorObject(Str("Forbidden"), Str("Access denied"), Str("req-1"))),
      GraphText(Chars(8), "object", "errorBody",
                ErrorObject(Str("Forbidden"), Str("Access denied"), Undefined)),
      GraphText(Chars(9), "object", "errorBody",
                ErrorObject(Undefined, Str("Access denied"), Undefined)) }
Response(st, text) == [status |-> st, text |-> text]
NoResponse == Response(0, GraphText(<<>>, "empty", "", NoErrorObject))
DispatchResponses == { Response(st, text) : st \in DispatchStatuses, text \in DispatchTexts }

\* ------------------------------------------------------- the tool registry
\* tools/*.ts: the names of each domain's Tool definitions in array order, and
\* each domain's handlers object (tool name to handler function)
mailTools ==
    << "m365_mail_list", "m365_mail_read", "m365_mail_send",
       "m365_mail_reply", "m365_mail_forward", "m365_mail_move",
       "m365_mail_flag", "m365_mail_mark_read", "m365_mail_folders",
       "m365_mail_create_draft", "m365_mail_search", "m365_mail_delete",
       "m365_mail_attachments_list", "m365_mail_attachment_get" >>
mailHandlers ==
    [ m365_mail_list |-> "mailList", m365_mail_read |-> "mailRead",
      m365_mail_send |-> "mailSend", m365_mail_reply |-> "mailReply",
      m365_mail_forward |-> "mailForward", m365_mail_move |-> "mailMove",
      m365_mail_flag |-> "mailFlag", m365_mail_mark_read |-> "mailMarkRead",
      m365_mail_folders |-> "mailFoldersList",
      m365_mail_create_draft |-> "mailCreateDraft",
      m365_mail_search |-> "mailSearch", m365_mail_delete |-> "mailDelete",
      m365_mail_attachments_list |-> "mailAttachmentsList",
      m365_mail_attachment_get |-> "mailAttachmentGet" ]
calendarTools ==
    << "m365_calendar_list", "m365_calendar_get", "m365_calendar_create",
       "m365_calendar_update", "m365_calendar_respond",
       "m365_calendar_delete", "m365_calendar_availability",
       "m365_calendar_find_meeting_times" >>
calendarHandlers ==
    [ m365_calendar_list |-> "calendarList",
      m365_calendar_get |-> "calendarGet",
      m365_calendar_create |-> "calendarCreate",
      m365_calendar_update |-> "calendarUpdate",
      m365_calendar_respond |-> "calendarRespond",
      m365_calendar_delete |-> "calendarDelete",
      m365_calendar_availability |-> "calendarAvailability",
      m365_calendar_find_meeting_times |-> "calendarFindMeetingTimes" ]
filesTools ==
    << "m365_files_list", "m365_files_get", "m365_files_read",
       "m365_files_search", "m365_files_delete" >>
filesHandlers ==
    [ m365_files_list |-> "filesList", m365_files_get |-> "filesGet",
      m365_files_read |-> "filesRead", m365_files_search |-> "filesSearch",
      m365_files_delete |-> "filesDelete" ]
tasksTools ==
    << "m365_tasks_lists", "m365_tasks_list", "m365_tasks_create",
       "m365_tasks_update", "m365_tasks_complete", "m365_tasks_delete",
       "m365_tasks_create_list" >>
tasksHandlers ==
    [ m365_tasks_lists |-> "tasksLists", m365_tasks_list |-> "tasksList",
      m365_tasks_create |-> "tasksCreate",
      m365_tasks_update |-> "tasksUpdate",
      m365_tasks_complete |-> "tasksComplete",
      m365_tasks_delete |-> "tasksDelete",
      m365_tasks_create_list |-> "tasksCreateList" ]
teamsTools ==
    << "m365_teams_chats", "m365_teams_messages", "m365_teams_send",
       "m365_teams_create_chat", "m365_teams_create_online_meeting",
       "m365_meetings_list", "m365_meeting_transcripts",
       "m365_meeting_transcript_content", "m365_call_records",
       "m365_meeting_by_join_url" >>
teamsHandlers ==
    [ m365_teams_chats |-> "teamsChats",
      m365_teams_messages |-> "teamsMessages",
      m365_teams_send |-> "teamsSend",
      m365_teams_create_chat |-> "teamsCreateChat",
      m365_teams_create_online_meeting |-> "teamsCreateOnlineMeeting",
      m365_meetings_list |-> "meetingsList",
      m365_meeting_transcripts |-> "meetingTranscripts",
      m365_meeting_transcript_content |-> "meetingTranscriptContent",
      m365_call_records |-> "callRecords",
      m365_meeting_by_join_url |-> "meetingByJoinUrl" ]
usersTools ==
    << "m365_users_list", "m365_users_get", "m365_users_search" >>
usersHandlers ==
    [ m365_users_list |-> "usersList", m365_users_get |-> "usersGet",
      m365_users_search |-> "usersSearch" ]

\* tools/index.ts: allTools is the concatenation of the domains' arrays
AllTools ==
    mailTools \o calendarTools \o filesTools \o tasksTools \o teamsTools \o usersTools

\* variant: the handlers of the last domain are left out of the spread
AllHandlersWithoutUsers ==
    teamsHandlers @@ tasksHandlers @@ filesHandlers @@ calendarHandlers @@ mailHandlers

\* allHandlers is one object spread from the domains' objects: where two
\* domains had the same key, the later one would replace the earlier
AllHandlers ==
    usersHandlers @@ teamsHandlers @@ tasksHandlers @@ filesHandlers @@ calendarHandlers
    @@ mailHandlers

\* the registry the process holds
Registry == [tools |-> AllTools, handlers |-> AllHandlers]

\* allHandlers is a plain object: a property it does not own is looked up on
\* Object.prototype, where toString and hasOwnProperty are functions and
\* __proto__ yields the prototype object itself
ObjectPrototype ==
    [n \in {"toString", "hasOwnProperty", "__proto__"} |->
        IF n = "__proto__" THEN "object" ELSE "function"]

\* what a property read yields: undefined, a registered handler (f names the
\* function), or an inherited member (f names the property)
NoHandler == [t |-> "undefined", f |-> ""]
RegisteredHandler(f) == [t |-> "handler", f |-> f]
Inherited(t, n) == [t |-> t, f |-> n]

\* getHandler(toolName): return allHandlers[toolName]
GetHandler(handlers, toolName) ==
    IF toolName \in DOMAIN handlers THEN RegisteredHandler(handlers[toolName])
    ELSE IF toolName \in DOMAIN ObjectPrototype
         THEN Inherited(ObjectPrototype[toolName], toolName)
         ELSE NoHandler

\* ------------------------------------------------------------- zod schemas
\* a field of a z.object: its key, the type checked, whether it is required,
\* .optional() or has a .default(), and the bounds (where it has .min().max())
\* or options checked
Field(key, type, presence, default, bounded, min, max, options) ==
    [key |-> key, type |-> type, presence |-> presence, default |-> default,
     bounded |-> bounded, min |-> min, max |-> max, options |-> options]
\* z.string()
StringField(key, presence, default) ==
    Field(key, "string", presence, default, FALSE, 0, 0, {})
\* z.number().min(min).max(max)
NumberField(key, presence, default, min, max) ==
    Field(key, "number", presence, default, TRUE, min, max, {})
\* z.number()
AnyNumberField(key, presence, default) ==
    Field(key, "number", presence, default, FALSE, 0, 0, {})
\* z.boolean()
BooleanField(key, presence, default) ==
    Field(key, "boolean", presence, default, FALSE, 0, 0, {})
\* z.enum([...])
EnumField(key, presence, default, options) ==
    Field(key, "enum", presence, default, FALSE, 0, 0, options)

\* mail.ts lines 14-19
mailListSchema ==
    << StringField("user", "optional", ValUndefined),
       StringField("folder", "default", ValString(<<"inbox">>)),
       NumberField("top", "default", ValNumber(10), 1, 100),
       StringField("filter", "optional", ValUndefined) >>
\* mail.ts lines 60-64
mailFlagSchema ==
    << StringField("user", "optional", ValUndefined),
       StringField("messageId", "required", ValUndefined),
       EnumField("flagStatus", "default", ValString(<<"flagged">>),
                 {<<"flagged">>, <<"complete">>, <<"notFlagged">>}) >>
\* teams.ts lines 58-63
teamsCreateChatSchema ==
    << StringField("user", "optional", ValUndefined),
       StringField("members", "required", ValUndefined),
       StringField("topic", "optional", ValUndefined),
       StringField("message", "optional", ValUndefined) >>

\* mail.ts lines 14-99: the schema each handler of the mail domain parses its
\* arguments with
mailSchemas ==
    [ mailList |-> mailListSchema,
      mailRead |->
          << StringField("user", "optional", ValUndefined),
             StringField("messageId", "required", ValUndefined) >>,
      mailSend |->
          << StringField("user", "optional", ValUndefined),
             StringField("to", "required", ValUndefined),
             StringField("subject", "required", ValUndefined),
             StringField("body", "required", ValUndefined),
             StringField("cc", "optional", ValUndefined) >>,
      mailReply |->
          << StringField("user", "optional", ValUndefined),
             StringField("messageId", "required", ValUndefined),
             StringField("body", "required", ValUndefined),
             BooleanField("replyAll", "default", ValBoolean(FALSE)) >>,
      mailForward |->
          << StringField("user", "optional", ValUndefined),
             StringField("messageId", "required", ValUndefined),
             StringField("to", "required", ValUndefined),
             StringField("comment", "optional", ValUndefined) >>,
      mailMove |->
          << StringField("user", "optional", ValUndefined),
             StringField("messageId", "required", ValUndefined),
             StringField("destinationFolder", "required", ValUndefined) >>,
      mailFlag |-> mailFlagSchema,
      mailMarkRead |->
          << StringField("user", "optional", ValUndefined),
             StringField("messageId", "required", ValUndefined),
             BooleanField("isRead", "default", ValBoolean(TRUE)) >>,
      mailFoldersList |->
          << StringField("user", "optional", ValUndefined),
             NumberField("top", "default", ValNumber(25), 1, 100) >>,
      mailCreateDraft |->
          << StringField("user", "optional", ValUndefined),
             StringField("to", "required", ValUndefined),
             StringField("subject", "required", ValUndefined),
             StringField("body", "required", ValUndefined),
             StringField("cc", "optional", ValUndefined) >>,
      mailSearch |->
          << StringField("user", "optional", ValUndefined),
             StringField("query", "required", ValUndefined),
             NumberField("top", "default", ValNumber(10), 1, 100) >>,
      mailDelete |->
          << StringField("user", "optional", ValUndefined),
             StringField("messageId", "required", ValUndefined) >>,
      mailAttachmentsList |->
          << StringField("user", "optional", ValUndefined),
             StringField("messageId", "required", ValUndefined) >>,
      mailAttachmentGet |->
          << StringField("user", "optional", ValUndefined),
             StringField("messageId", "required", ValUndefined),
             StringField("attachmentId", "required", ValUndefined) >> ]
\* calendar.ts lines 14-76: the schema each handler of the calendar domain parses its
\* arguments with
calendarSchemas ==
    [ calendarList |->
          << StringField("user", "optional", ValUndefined),
             StringField("startDateTime", "optional", ValUndefined),
             StringField("endDateTime", "optional", ValUndefined),
             NumberField("top", "default", ValNumber(10), 1, 100) >>,
      calendarGet |->
          << StringField("user", "optional", ValUndefined),
             StringField("eventId", "required", ValUndefined) >>,
      calendarCreate |->
          << StringField("user", "optional", ValUndefined),
             StringField("subject", "required", ValUndefined),
             StringField("start", "required", ValUndefined),
             StringField("end", "required", ValUndefined),
             StringField("body", "optional", ValUndefined),
             StringField("location", "optional", ValUndefined),
             StringField("attendees", "optional", ValUndefined),
             BooleanField("isOnline", "default", ValBoolean(FALSE)) >>,
      calendarUpdate |->
          << StringField("user", "optional", ValUndefined),
             StringField("eventId", "required", ValUndefined),
             StringField("subject", "optional", ValUndefined),
             StringField("start", "optional", ValUndefined),
             StringField("end", "optional", ValUndefined),
             StringField("body", "optional", ValUndefined),
             StringField("location", "optional", ValUndefined),
             StringField("attendees", "optional", ValUndefined),
             BooleanField("isOnline", "optional", ValUndefined) >>,
      calendarRespond |->
          << StringField("user", "optional", ValUndefined),
             StringField("eventId", "required", ValUndefined),
             EnumField("response", "required", ValUndefined,
                       {<<"accept">>, <<"tentativelyAccept">>, <<"decline">>}),
             StringField("comment", "optional", ValUndefined),
             BooleanField("sendResponse", "default", ValBoolean(TRUE)) >>,
      calendarDelete |->
          << StringField("user", "optional", ValUndefined),
             StringField("eventId", "required", ValUndefined) >>,
      calendarAvailability |->
          << StringField("user", "optional", ValUndefined),
             StringField("users", "required", ValUndefined),
             StringField("startDateTime", "required", ValUndefined),
             StringField("endDateTime", "required", ValUndefined) >>,
      calendarFindMeetingTimes |->
          << StringField("user", "optional", ValUndefined),
             StringField("attendees", "required", ValUndefined),
             AnyNumberField("durationMinutes", "default", ValNumber(60)),
             StringField("startDateTime", "required", ValUndefined),
             StringField("endDateTime", "required", ValUndefined),
             AnyNumberField("maxCandidates", "default", ValNumber(5)) >> ]
\* files.ts lines 14-39: the schema each handler of the files domain parses its
\* arguments with
filesSchemas ==
    [ filesList |->
          << StringField("user", "optional", ValUndefined),
             StringField("path", "default", ValString(<<>>)),
             NumberField("top", "default", ValNumber(20), 1, 100) >>,
      filesGet |->
          << StringField("user", "optional", ValUndefined),
             StringField("itemId", "required", ValUndefined) >>,
      filesRead |->
          << StringField("user", "optional", ValUndefined),
             StringField("itemId", "required", ValUndefined) >>,
      filesSearch |->
          << StringField("user", "optional", ValUndefined),
             StringField("query", "required", ValUndefined),
             NumberField("top", "default", ValNumber(10), 1, 100) >>,
      filesDelete |->
          << StringField("user", "optional", ValUndefined),
             StringField("itemId", "required", ValUndefined) >> ]
\* tasks.ts lines 14-58: the schema each handler of the tasks domain parses its
\* arguments with
tasksSchemas ==
    [ tasksLists |->
          << StringField("user", "optional", ValUndefined) >>,
      tasksList |->
          << StringField("user", "optional", ValUndefined),
             StringField("listId", "required", ValUndefined),
             NumberField("top", "default", ValNumber(20), 1, 100) >>,
      tasksCreate |->
          << StringField("user", "optional", ValUndefined),
             StringField("listId", "required", ValUndefined),
             StringField("title", "required", ValUndefined),
             StringField("body", "optional", ValUndefined),
             StringField("dueDateTime", "optional", ValUndefined),
             EnumField("importance", "default", ValString(<<"normal">>),
                       {<<"low">>, <<"normal">>, <<"high">>}) >>,
      tasksUpdate |->
          << StringField("user", "optional", ValUndefined),
             StringField("listId", "required", ValUndefined),
             StringField("taskId", "required", ValUndefined),
             StringField("title", "optional", ValUndefined),
             StringField("body", "optional", ValUndefined),
             StringField("dueDateTime", "optional", ValUndefined),
             EnumField("importance", "optional", ValUndefined,
                       {<<"low">>, <<"normal">>, <<"high">>}) >>,
      tasksComplete |->
          << StringField("user", "optional", ValUndefined),
             StringField("listId", "required", ValUndefined),
             StringField("taskId", "required", ValUndefined) >>,
      tasksDelete |->
          << StringField("user", "optional", ValUndefined),
             StringField("listId", "required", ValUndefined),
             StringField("taskId", "required", ValUndefined) >>,
      tasksCreateList |->
          << StringField("user", "optional", ValUndefined),
             StringField("displayName", "required", ValUndefined) >> ]
\* teams.ts lines 14-71: the schema each handler of the teams domain parses its
\* arguments with
teamsSchemas ==
    [ teamsChats |->
          << StringField("user", "optional", ValUndefined),
             NumberField("top", "default", ValNumber(20), 1, 50) >>,
      teamsMessages |->
          << StringField("user", "optional", ValUndefined),
             StringField("chatId", "required", ValUndefined),
             NumberField("top", "default", ValNumber(20), 1, 50) >>,
      teamsSend |->
          << StringField("user", "optional", ValUndefined),
             StringField("chatId", "required", ValUndefined),
             StringField("message", "required", ValUndefined) >>,
      teamsCreateChat |-> teamsCreateChatSchema,
      teamsCreateOnlineMeeting |->
          << StringField("user", "optional", ValUndefined),
             StringField("subject", "required", ValUndefined),
             StringField("startDateTime", "required", ValUndefined),
             StringField("endDateTime", "required", ValUndefined),
             StringField("participants", "optional", ValUndefined) >>,
      meetingsList |->
          << StringField("user", "optional", ValUndefined),
             NumberField("top", "default", ValNumber(20), 1, 50) >>,
      meetingTranscripts |->
          << StringField("user", "optional", ValUndefined),
             StringField("meetingId", "required", ValUndefined) >>,
      meetingTranscriptContent |->
          << StringField("user", "optional", ValUndefined),
             StringField("meetingId", "required", ValUndefined),
             StringField("transcriptId", "required", ValUndefined) >>,
      callRecords |->
          << StringField("fromDateTime", "optional", ValUndefined),
             StringField("toDateTime", "optional", ValUndefined),
             NumberField("top", "default", ValNumber(20), 1, 100) >>,
      meetingByJoinUrl |->
          << StringField("user", "optional", ValUndefined),
             StringField("joinWebUrl", "required", ValUndefined) >> ]
\* teams.ts lines 594-606: the schema each handler of the users domain parses its
\* arguments with
usersSchemas ==
    [ usersList |->
          << NumberField("top", "default", ValNumber(20), 1, 100),
             StringField("filter", "optional", ValUndefined) >>,
      usersGet |->
          << StringField("user", "required", ValUndefined) >>,
      usersSearch |->
          << StringField("query", "required", ValUndefined),
             NumberField("top", "default", ValNumber(10), 1, 50) >> ]

\* the schema each handler parses its arguments with (handler names are
\* unique across the domains)
AllSchemas ==
    usersSchemas @@ teamsSchemas @@ tasksSchemas @@ filesSchemas @@ calendarSchemas
    @@ mailSchemas
SchemaOf(handler) == IF handler \in DOMAIN AllSchemas THEN AllSchemas[handler] ELSE <<>>
Keys(schema) == { schema[i].key : i \in DOMAIN schema }

\* args[key]: undefined for a key the bag does not hold
Supplied(args, key) == IF key \in DOMAIN args THEN args[key] ELSE ValUndefined

\* a validation issue: its code and the path of the offending field
NoIssue == [code |-> "", path |-> ""]
Issue(code, path) == [code |-> code, path |-> path]

\* what the type check of a field reports for a value that is present
TypeIssue(field, v) ==
    CASE field.type = "string" ->
            IF v.t = "string" THEN NoIssue ELSE Issue("invalid_type", field.key)
      [] field.type = "number" ->
            IF v.t # "number" THEN Issue("invalid_type", field.key)
            ELSE IF field.bounded /\ v.n < field.min THEN Issue("too_small", field.key)
            ELSE IF field.bounded /\ v.n > field.max THEN Issue("too_big", field.key)
            ELSE NoIssue
      [] field.type = "boolean" ->
            IF v.t = "boolean" THEN NoIssue ELSE Issue("invalid_type", field.key)
      [] field.type = "enum" ->
            IF v.t # "string" THEN Issue("invalid_type", field.key)
            ELSE IF v.s \notin field.options THEN Issue("invalid_enum_value", field.key)
            ELSE NoIssue
      [] OTHER -> NoIssue

\* variant: a bound is not checked
FieldIssueNoRange(field, v) ==
    IF v.t = "undefined"
    THEN IF field.presence = "required" THEN Issue("invalid_type", field.key) ELSE NoIssue
    ELSE IF field.type = "number" /\ v.t = "number" THEN NoIssue ELSE TypeIssue(field, v)

\* z.<type>(), .optional(), .default(): undefined passes an optional or
\* defaulted field and fails a required one
FieldIssue(field, v) ==
    IF v.t = "undefined"
    THEN IF field.presence = "required" THEN Issue("invalid_type", field.key) ELSE NoIssue
    ELSE TypeIssue(field, v)

\* variant: a default is not filled in
FieldOutputNoDefault(field, v) == v

\* the parsed value of a field: the default for undefined, else the value
FieldOutput(field, v) ==
    IF v.t = "undefined" /\ field.presence = "default" THEN field.default ELSE v

\* the issues of a bag, in the order of the schema's fields
Issues(schema, args) ==
    SelectSeq([i \in DOMAIN schema |-> FieldIssue(schema[i], Supplied(args, schema[i].key))],
              LAMBDA issue : issue # NoIssue)

\* schema.parse(args) when it returns: the declared keys with their parsed
\* values (keys the schema does not declare are stripped)
Parsed(schema, args) ==
    [key \in Keys(schema) |->
        LET field == CHOOSE f \in { schema[i] : i \in DOMAIN schema } : f.key = key
        IN  FieldOutput(field, Supplied(args, key))]

\* ZodError.message: the issues as indented JSON, one member a line
RECURSIVE IssuesJson(_)
IssuesJson(issues) ==
    IF issues = <<>> THEN <<>>
    ELSE <<"{", "\n", "\"code\": ", Head(issues).code, ",", "\n",
           "\"path\": [", Head(issues).path, "]", "\n", "}">>
         \o (IF Len(issues) > 1 THEN <<",", "\n">> ELSE <<>>)
         \o IssuesJson(Tail(issues))
\* variant: parsing stops at the first issue
ZodErrorFirstOnly(issues) ==
    [name |-> "ZodError",
     message |-> <<"[", "\n">> \o IssuesJson(<<Head(issues)>>) \o <<"\n", "]">>,
     statusCode |-> 0, code |-> Undefined, requestId |-> Undefined, field |-> ""]

\* error.message of the ZodError thrown for the issues
ZodError(issues) ==
    [name |-> "ZodError", message |-> <<"[", "\n">> \o IssuesJson(issues) \o <<"\n", "]">>,
     statusCode |-> 0, code |-> Undefined, requestId |-> Undefined, field |-> ""]
\* new Error(message)
PlainError(msg) ==
    [name |-> "Error", message |-> msg, statusCode |-> 0, code |-> Undefined,
     requestId |-> Undefined, field |-> ""]

\* what the CallTool handler answers: nothing yet, or an error text
NoToolResult == [isError |-> FALSE, text |-> <<>>]
ToolError(text) == [isError |-> TRUE, text |-> text]

VARIABLES
    now,            \* Date.now(), milliseconds
    tokenCache,     \* the module-level cache of core/auth.ts
    kind,           \* per call: "getAccessToken" (called directly), "request",
                    \* "getText" or "download"
    pc,             \* per call: where the call is suspended
    tokenOk,        \* per call: response.ok of its token response
    token,          \* per call: the value getAccessToken returned to it (kept
                    \* until its downstream response arrives)
    error,          \* per call: the error it failed with
    tokenRequests,  \* per call: issuance requests it sent
    cleared,        \* clearTokenCache() has run since the last store
    clearPending,   \* where recorded (SpecClear), a one-element sequence:
                    \* clearTokenCache() has run and no getAccessToken call was
                    \* made since
    lastWrite,      \* the success response processed last: the call, the parsed
                    \* body and Date.now() then (by = 0: none yet)
    graphCalls,     \* per call: downstream Graph calls it sent
    sent,           \* per call: its downstream call in flight
    status,         \* per call: response.status while the response text is read
    result,         \* per call: the value request() returned
    response,       \* the response the Graph API has for the request (SpecDispatch)
    urlArgs,        \* the arguments of a buildUrl call (SpecUrl)
    urlBuilt,       \* whether buildUrl has returned, and the string it returned
    toolResult,     \* per call: what the CallTool handler answered for it
    clearedInFlight,\* per recorded call: clearTokenCache() ran while its issuance
                    \* request was outstanding (SpecClear records its calls)
    registry,       \* allTools and allHandlers of tools/index.ts
    defaultUser,    \* config.defaultUser
    invocation,     \* per tool call: the name and arguments of the CallTool request
    chat,           \* per tool call: the local chat of teamsCreateChat
    listed,         \* what the ListTools handler answered last
    handlerResult,  \* per tool call: the text its handler returned, which the
                    \* CallTool handler awaits (const result = await handler(args))
    validated,      \* per schema.parse call (SpecParse): the validated input it
                    \* returned
    observed        \* per recorded call (SpecShared): the responses it has
                    \* received, in order

vars == <<now, tokenCache, kind, pc, tokenOk, token, error, tokenRequests, cleared,
          clearPending, lastWrite,
          graphCalls, sent, status, result, response, urlArgs, urlBuilt, toolResult,
          clearedInFlight, registry, defaultUser, invocation, chat, listed,
          handlerResult, validated, observed>>
\* the registry, the configured user and the tool calls
toolVars == <<registry, defaultUser, invocation, chat, listed, handlerResult, validated>>
\* what no step of getAccessToken or request assigns: the kind of each call,
\* the response the Graph API holds ready, the buildUrl call and the answers
\* of the CallTool handler
unobserved == <<kind, response, urlArgs, urlBuilt, toolResult, clearedInFlight, toolVars>>
apart == <<unobserved, observed>>
tokenVars == <<tokenOk, token, tokenRequests, cleared, clearPending, lastWrite>>
graphVars == <<graphCalls, sent, status, result>>

\* the calls of a behaviour
Calls == DOMAIN pc

\* the process has started, nothing is cached, no call of the set S has begun
InitCalls(S, k) ==
    /\ now = 0
    /\ tokenCache = NullCache
    /\ kind = [p \in S |-> IF k = "raw"
                            THEN (IF p % 2 = 1 THEN "getText" ELSE "download")
                            ELSE k]
    /\ pc = [p \in S |-> "idle"]
    /\ tokenOk = [p \in S |-> FALSE]
    /\ token = [p \in S |-> Undefined]
    /\ error = [p \in S |-> NoError]
    /\ tokenRequests = [p \in S |-> 0]
    /\ cleared = FALSE
    /\ lastWrite = NoWrite
    /\ graphCalls = [p \in S |-> 0]
    /\ sent = [p \in S |-> NoRequest]
    /\ status = [p \in S |-> 0]
    /\ result = [p \in S |-> NoResult]
    /\ toolResult = [p \in S |-> NoToolResult]
\* no Graph response is held ready and no buildUrl call is made
NoToolCalls ==
    /\ registry = Registry
    /\ defaultUser = ValUndefined
    /\ invocation = <<>> /\ chat = <<>> /\ listed = <<>>
    /\ handlerResult = <<>> /\ validated = <<>>
NothingApart ==
    /\ response = NoResponse /\ urlArgs = NoUrlArgs /\ urlBuilt = NotBuilt
    /\ clearedInFlight = <<>> /\ clearPending = <<>> /\ observed = <<>>
    /\ NoToolCalls
Init == InitCalls(TokenCalls, "getAccessToken") /\ NothingApart
InitRequest == InitCalls(Requests, "request") /\ NothingApart

\* ------------------------------------------------------------- core/auth.ts
\* variants of the cache check: a doubled safety margin, and none at all
CacheIsValidDoubleMargin(cache, t) ==
    cache.present /\ Greater(cache.expiresAt, t + 2 * SAFETY_MARGIN_MS)
CacheIsValidNoMargin(cache, t) ==
    cache.present /\ Greater(cache.expiresAt, t)

\* tokenCache && tokenCache.expiresAt > Date.now() + 60000
CacheIsValid(cache, t) ==
    cache.present /\ Greater(cache.expiresAt, t + SAFETY_MARGIN_MS)

\* !response.ok || data.error
IsTokenFailure(ok, data) == ~ok \/ Truthy(data.error)

\* data.error_description || data.error || 'Unknown error'
ErrorDesc(data) == OrElse(data.error_description, OrElse(data.error, Str("Unknown error")))

\* variant: the lifetime added without the conversion to milliseconds
NewCredentialSeconds(data, t) ==
    Credential(data.access_token, Plus(t, data.expires_in))

\* { accessToken, expiresAt: Date.now() + (expiresIn * 1000) }
NewCredential(data, t) ==
    Credential(data.access_token, Plus(t, Times(data.expires_in, MS_PER_SECOND)))

\* variant: a cached Credential that expires later than the new one is kept
CacheKeepFresher(cache, data, t) ==
    IF /\ cache.present
       /\ NewCredential(data, t).expiresAt.t = "number"
       /\ Greater(cache.expiresAt, NewCredential(data, t).expiresAt.v)
    THEN cache
    ELSE NewCredential(data, t)

\* variant: a response that arrives after a clear is dropped
CacheDropAfterClear(cache, data, t) ==
    IF cleared THEN cache ELSE NewCredential(data, t)

\* tokenCache = { ... }: the assignment replaces whatever the cache held
CacheAfterSuccess(cache, data, t) == NewCredential(data, t)

\* variant: a failed issuance drops the cached Credential
CacheDroppedOnFailure(cache) == NullCache

\* neither throw path of getAccessToken assigns tokenCache
CacheAfterFailure(cache) == cache

\* what the body of the try block does with a parsed response: the error it
\* throws (as rethrown by the catch clause), or none
TokenError(ok, data) ==
    CASE data.parse = "fail" ->
            AuthError(<<"Failed to authenticate", "Unexpected token in JSON">>)
      [] data.parse = "null" ->
            AuthError(<<"Failed to authenticate", "Cannot read properties of null">>)
      [] IsTokenFailure(ok, data) ->
            AuthError(<<"Token request failed", Template(ErrorDesc(data))>>)
      [] OTHER -> NoError

\* variant: the call returns what the cache held when its response arrived
ReturnedTokenFromCache(cache, data) == cache.accessToken

\* line 63: return accessToken, the access_token of the response just parsed
ReturnedToken(cache, data) == data.access_token

\* where a call continues once getAccessToken has returned: a direct call is
\* over, request() goes on to build its fetch options
PcAfterToken(k) ==
    IF k \in {"request", "getText", "tool"} THEN "tokenReady" ELSE "returned"

\* request() awaits getAccessToken(): a thrown AuthError rejects request()
\* itself, nothing catches it and nothing calls getAccessToken again
PcAfterTokenFailure == "threw"

\* lines 24-45: the cache check, and the fetch of the token endpoint
GetAccessTokenSteps(p) ==
    /\ IF CacheIsValid(tokenCache, now)
       THEN /\ token' = [token EXCEPT ![p] = tokenCache.accessToken]
            /\ pc' = [pc EXCEPT ![p] = PcAfterToken(kind[p])]
            /\ UNCHANGED tokenRequests
       ELSE /\ pc' = [pc EXCEPT ![p] = "tokenFetch"]
            /\ tokenRequests' = [tokenRequests EXCEPT ![p] = @ + 1]
            /\ UNCHANGED token
    /\ clearPending' = [i \in DOMAIN clearPending |-> FALSE]
GetAccessTokenEntry(p) ==
    /\ GetAccessTokenSteps(p)
    /\ UNCHANGED <<tokenCache, apart, tokenOk, cleared, lastWrite, error>>

\* a direct call of getAccessToken()
StartGetAccessToken(p) ==
    /\ pc[p] = "idle" /\ kind[p] = "getAccessToken"
    /\ GetAccessTokenEntry(p)
    /\ UNCHANGED <<now, graphVars>>

\* what a call receives from the token endpoint and the Graph API: a rejected
\* fetch, a response's status line, a response's body
Seen(event, ok, st, tokenBody, graphBody) ==
    [event |-> event, ok |-> ok, status |-> st, token |-> tokenBody, graph |-> graphBody]
Observe(p, seen) ==
    observed' = [q \in DOMAIN observed |->
                    IF q = p THEN Append(observed[q], seen) ELSE observed[q]]

\* await fetch(TOKEN_URL, ...) rejects: the catch clause wraps the error
TokenFetchReject(p) ==
    /\ pc[p] = "tokenFetch"
    /\ error' = [error EXCEPT ![p] = AuthError(<<"Failed to authenticate", "fetch failed">>)]
    /\ pc' = [pc EXCEPT ![p] = PcAfterTokenFailure]
    /\ tokenCache' = CacheAfterFailure(tokenCache)
    /\ Observe(p, Seen("tokenFetchRejected", FALSE, 0, <<>>, <<>>))
    /\ UNCHANGED <<now, unobserved, tokenVars, graphVars>>

\* await fetch(TOKEN_URL, ...) resolves with the response's status line
TokenFetchResolve(p, ok) ==
    /\ pc[p] = "tokenFetch"
    /\ tokenOk' = [tokenOk EXCEPT ![p] = ok]
    /\ pc' = [pc EXCEPT ![p] = "tokenJson"]
    /\ Observe(p, Seen("tokenResponse", ok, 0, <<>>, <<>>))
    /\ UNCHANGED <<now, tokenCache, unobserved, token, error, tokenRequests, cleared,
                   clearPending, lastWrite, graphVars>>

\* await response.json() settles; lines 47-71
TokenJsonResolve(p, data) ==
    /\ pc[p] = "tokenJson"
    /\ tokenOk' = [tokenOk EXCEPT ![p] = FALSE]
    /\ IF TokenError(tokenOk[p], data).name # "none"
       THEN /\ error' = [error EXCEPT ![p] = TokenError(tokenOk[p], data)]
            /\ pc' = [pc EXCEPT ![p] = PcAfterTokenFailure]
            /\ tokenCache' = CacheAfterFailure(tokenCache)
            /\ UNCHANGED <<token, cleared, clearPending, lastWrite>>
       ELSE /\ tokenCache' = CacheAfterSuccess(tokenCache, data, now)
            /\ lastWrite' = Write(p, data, now)
            /\ cleared' = FALSE
            /\ token' = [token EXCEPT ![p] = ReturnedToken(tokenCache, data)]
            /\ pc' = [pc EXCEPT ![p] = PcAfterToken(kind[p])]
            /\ UNCHANGED <<error, clearPending>>
    /\ Observe(p, Seen("tokenBody", FALSE, 0, <<data>>, <<>>))
    /\ UNCHANGED <<now, unobserved, tokenRequests, graphVars>>

\* where a call is while its issuance request is outstanding: between the
\* fetch of line 33 and the settling of response.json() of line 46
IssuancePhase == {"tokenFetch", "tokenJson"}

\* variant: clearing leaves the cache as it is
ClearKeepsCache == tokenCache

\* clearTokenCache(): tokenCache = null
ClearedCache == NullCache
ClearTokenCache ==
    /\ tokenCache' = ClearedCache
    /\ cleared' = TRUE
    /\ clearPending' = [i \in DOMAIN clearPending |-> TRUE]
    /\ clearedInFlight' = [p \in DOMAIN clearedInFlight |->
                              clearedInFlight[p] \/ pc[p] \in IssuancePhase]
    /\ UNCHANGED <<now, kind, response, urlArgs, urlBuilt, toolResult, pc, error, tokenOk,
                   token, tokenRequests, lastWrite, graphVars, toolVars, observed>>

\* the clock advances between steps
Tick ==
    /\ now < MaxTicks * TickMs
    /\ now' = now + TickMs
    /\ UNCHANGED <<tokenCache, apart, pc, error, tokenVars, graphVars>>

\* ----------------------------------------------------- core/graph-client.ts
\* endpoint.startsWith('/') ? endpoint : `/${endpoint}`
NormalizedEndpoint(endpoint) ==
    IF Len(endpoint) > 0 /\ Head(endpoint) = "/" THEN endpoint ELSE <<"/">> \o endpoint

\* new URL(fullUrl), the path of an https URL: the text is cut into segments
\* at every "/", a "." segment is skipped, a ".." segment removes the segment
\* before it, and either of them at the end leaves an empty last segment
SingleDot == <<".">>
DoubleDot == <<".", ".">>
Shorten(path) == IF path = <<>> THEN path ELSE SubSeq(path, 1, Len(path) - 1)
AfterSegment(path, buffer, atEnd) ==
    CASE buffer = DoubleDot -> IF atEnd THEN Append(Shorten(path), <<>>) ELSE Shorten(path)
      [] buffer = SingleDot -> IF atEnd THEN Append(path, <<>>) ELSE path
      [] OTHER -> Append(path, buffer)
RECURSIVE ParsePath(_, _, _)
ParsePath(rest, buffer, path) ==
    IF rest = <<>> THEN AfterSegment(path, buffer, TRUE)
    ELSE IF Head(rest) = "/"
         THEN ParsePath(Tail(rest), <<>>, AfterSegment(path, buffer, FALSE))
         ELSE ParsePath(Tail(rest), Append(buffer, Head(rest)), path)
\* the origin is the first piece, the path starts at the "/" after it
ParseUrl(fullUrl) ==
    [origin |-> Head(fullUrl),
     path |-> ParsePath(Tail(Tail(fullUrl)), <<>>, <<>>),
     query |-> <<>>]

\* String(value)
StringOf(v) ==
    CASE v.t = "string" -> v.s
      [] v.t = "number" -> <<ToString(v.n)>>
      [] v.t = "boolean" -> IF v.b THEN <<"true">> ELSE <<"false">>
      [] v.t = "null" -> <<"null">>
      [] OTHER -> <<"undefined">>

\* variant: a parameter is appended when its value is truthy
IsAppendedWhenTruthy(v) ==
    \/ v.t = "string" /\ v.s # <<>>
    \/ v.t = "number" /\ v.n # 0
    \/ v.t = "boolean" /\ v.b

\* value !== undefined && value !== null && value !== ''
IsAppended(v) == v.t # "undefined" /\ v.t # "null" /\ ~(v.t = "string" /\ v.s = <<>>)

\* Object.entries(params).forEach(... url.searchParams.append(key, String(value)))
RECURSIVE AppendParams(_, _)
AppendParams(query, params) ==
    IF params = <<>> THEN query
    ELSE AppendParams(IF IsAppended(Head(params).value)
                      THEN Append(query, [key |-> Head(params).key,
                                          value |-> StringOf(Head(params).value)])
                      ELSE query,
                      Tail(params))

\* the application/x-www-form-urlencoded serializer of url.searchParams:
\* a space becomes "+", "$" and "/" are percent-encoded, letters, digits
\* and "." stay
FormEncode(str) ==
    [i \in DOMAIN str |->
        CASE str[i] = " " -> "+"
          [] str[i] = "$" -> "%24"
          [] str[i] = "/" -> "%2F"
          [] str[i] = "," -> "%2C"
          [] OTHER -> str[i]]

\* url.toString()
RECURSIVE SerializePath(_)
SerializePath(path) ==
    IF path = <<>> THEN <<>> ELSE <<"/">> \o Head(path) \o SerializePath(Tail(path))
RECURSIVE SerializeQuery(_)
SerializeQuery(query) ==
    IF query = <<>> THEN <<>>
    ELSE FormEncode(Head(query).key) \o <<"=">> \o FormEncode(Head(query).value)
         \o (IF Len(query) > 1 THEN <<"&">> \o SerializeQuery(Tail(query)) ELSE <<>>)
Href(url) ==
    <<url.origin>> \o SerializePath(url.path)
    \o (IF url.query = <<>> THEN <<>> ELSE <<"?">> \o SerializeQuery(url.query))

\* buildUrl(endpoint, params, useBeta)
BuildUrl(endpoint, params, useBeta) ==
    LET baseUrl == IF useBeta THEN GRAPH_BETA_URL ELSE GRAPH_BASE_URL
        fullUrl == baseUrl \o NormalizedEndpoint(endpoint)
        url == ParseUrl(fullUrl)
    IN  Href([url EXCEPT !.query = AppendParams(url.query, params)])

\* a call of buildUrl
BuildUrlCall ==
    /\ ~urlBuilt.done
    /\ urlBuilt' = Built(BuildUrl(urlArgs.endpoint, urlArgs.params, urlArgs.useBeta))
    /\ UNCHANGED <<now, tokenCache, kind, pc, error, tokenVars, graphVars, response, urlArgs,
                   toolResult, clearedInFlight, toolVars, observed>>

\* response.ok
IsOk(st) == st >= 200 /\ st <= 299

\* variant: the header built from the cache at send time
HeaderFromCache(p) == <<"Bearer", Template(tokenCache.accessToken)>>

\* 'Authorization': `Bearer ${token}`
AuthorizationHeader(p) == <<"Bearer", Template(token[p])>>

\* body && (method === 'POST' || method === 'PATCH')
CarriesBody(method, body) == IsTruthy(body) /\ method \in {"POST", "PATCH"}

\* JSON.stringify(body)
JsonStringify(v) ==
    CASE v.t = "object" -> <<"{">> \o v.s \o <<"}">>
      [] v.t = "string" -> <<"\"">> \o v.s \o <<"\"">>
      [] v.t = "number" -> <<ToString(v.n)>>
      [] v.t = "boolean" -> IF v.b THEN <<"true">> ELSE <<"false">>
      [] v.t = "null" -> <<"null">>
      [] OTHER -> <<>>

\* new Error(message).message: the string, or '' for undefined
ErrorMessage(x) == IF x.t = "undefined" THEN "" ELSE x.s

\* variant: only 204 counts as a no-content status
IsNoContentOnly204(st) == st = 204

\* response.status === 204 || response.status === 202
IsNoContent(st) == st = 204 \/ st = 202

\* variant: an empty body counts as success on a success status only
EmptyTextErrorByStatus(st) ==
    IF st >= 200 /\ st <= 299 THEN NoError
    ELSE GraphApiError(<<"Unknown error">>, st, Str("UNKNOWN"), Undefined)

\* if (!text) return { success: true }: no error, whatever the status
EmptyTextError(st) == NoError

\* variant: the whole text is quoted
SubstringAll(raw) == raw

\* text.substring(0, 100)
Substring100(raw) ==
    SubSeq(raw, 1, IF Len(raw) < SUBSTRING_LIMIT THEN Len(raw) ELSE SUBSTRING_LIMIT)

\* data.error || { code: 'UNKNOWN', message: 'Unknown error' }
ErrorOrUnknown(err) ==
    IF err.present THEN err
    ELSE ErrorObject(Str("UNKNOWN"), Str("Unknown error"), Undefined)

\* lines 84-114: what request() does with a response whose text was read
ClassifyError(st, text) ==
    CASE text.parse = "empty" -> EmptyTextError(st)
      [] text.parse = "fail" ->
            GraphApiError(<<"Invalid JSON response", Substring100(text.raw)>>, st,
                          Str("INVALID_JSON"), Undefined)
      [] text.parse = "null" -> TypeError(<<"Cannot read properties of null">>)
      [] ~IsOk(st) \/ text.error.present ->
            GraphApiError(<<ErrorMessage(ErrorOrUnknown(text.error).message)>>, st,
                          ErrorOrUnknown(text.error).code,
                          ErrorOrUnknown(text.error).requestId)
      [] OTHER -> NoError
ClassifyResult(st, text) ==
    IF text.parse = "empty" THEN SuccessMarker ELSE Payload(text.name)

\* variant: a 5xx answer sends the call again
RetryOnServerError(st) == IF st >= 500 THEN "tokenReady" ELSE "threw"

\* the throw statements of request() end it: no loop, no second fetch
PcAfterGraphFailure(st) == "threw"

\* formatError(error)
FormatError(err) ==
    CASE err.name = "GraphApiError" ->
            <<"Graph API Error (", ToString(err.statusCode), "): ">> \o err.message
            \o <<" [", Template(err.code), "]">>
      [] err.name = "AuthError" -> <<"Authentication Error: ">> \o err.message
      [] err.name = "ValidationError" ->
            <<"Validation Error: ">> \o err.message \o <<" (field: ", err.field, ")">>
      [] OTHER -> <<"Error: ">> \o err.message

\* request(): buildUrl, then getAccessToken() up to its first await
StartRequest(p) ==
    /\ pc[p] = "idle" /\ kind[p] = "request"
    /\ GetAccessTokenEntry(p)
    /\ UNCHANGED <<now, graphVars>>

\* lines 59-75: the headers, the body, the fetch of the Graph URL
RequestFetch(p, target, method, body) ==
    /\ sent' = [sent EXCEPT ![p] =
                    [url |-> BuildUrl(target.endpoint, target.params, target.useBeta),
                     method |-> method,
                     authorization |-> AuthorizationHeader(p),
                     accept |-> "application/json",
                     body |-> IF CarriesBody(method, body)
                              THEN JsonBody(JsonStringify(body)) ELSE NoBody,
                     given |-> body]]
    /\ graphCalls' = [graphCalls EXCEPT ![p] = @ + 1]
    /\ pc' = [pc EXCEPT ![p] = "graphFetch"]
    /\ UNCHANGED <<now, tokenCache, apart, error, tokenVars, status, result>>

\* a direct call of request() once getAccessToken has returned
RequestSend(p, target, method, body) ==
    /\ pc[p] = "tokenReady" /\ kind[p] = "request"
    /\ RequestFetch(p, target, method, body)

\* await fetch(url, fetchOptions) rejects: nothing in request() catches it
GraphFetchReject(p) ==
    /\ pc[p] = "graphFetch"
    /\ error' = [error EXCEPT ![p] = TypeError(<<"fetch failed">>)]
    /\ sent' = [sent EXCEPT ![p] = NoRequest]
    /\ pc' = [pc EXCEPT ![p] = "threw"]
    /\ token' = [token EXCEPT ![p] = Undefined]
    /\ Observe(p, Seen("graphFetchRejected", FALSE, 0, <<>>, <<>>))
    /\ UNCHANGED <<now, tokenCache, unobserved, tokenOk, tokenRequests, cleared,
                   clearPending, lastWrite, graphCalls, status, result>>

\* await fetch(url, fetchOptions) resolves; lines 78-84
GraphFetchResolve(p, st) ==
    /\ pc[p] = "graphFetch"
    /\ sent' = [sent EXCEPT ![p] = NoRequest]
    /\ IF IsNoContent(st)
       THEN /\ result' = [result EXCEPT ![p] = SuccessMarker]
            /\ pc' = [pc EXCEPT ![p] = "returned"]
            /\ UNCHANGED status
       ELSE /\ status' = [status EXCEPT ![p] = st]
            /\ pc' = [pc EXCEPT ![p] = "graphText"]
            /\ UNCHANGED result
    /\ token' = [token EXCEPT ![p] = Undefined]
    /\ Observe(p, Seen("graphResponse", FALSE, st, <<>>, <<>>))
    /\ UNCHANGED <<now, tokenCache, unobserved, error, tokenOk, tokenRequests, cleared,
                   clearPending, lastWrite, graphCalls>>

\* await response.text() resolves; lines 86-114
GraphTextResolve(p, text) ==
    /\ pc[p] = "graphText"
    /\ IF ClassifyError(status[p], text).name # "none"
       THEN /\ error' = [error EXCEPT ![p] = ClassifyError(status[p], text)]
            /\ pc' = [pc EXCEPT ![p] = PcAfterGraphFailure(status[p])]
            /\ UNCHANGED result
       ELSE /\ result' = [result EXCEPT ![p] = ClassifyResult(status[p], text)]
            /\ pc' = [pc EXCEPT ![p] = "returned"]
            /\ UNCHANGED error
    /\ status' = [status EXCEPT ![p] = 0]
    /\ Observe(p, Seen("graphBody", FALSE, 0, <<>>, <<text>>))
    /\ UNCHANGED <<now, tokenCache, unobserved, tokenVars, graphCalls, sent>>

\* ------------------------------------- graphClient.download and getText
\* variant: getText on the preview surface
GetTextUrlBeta(endpoint) == GRAPH_BETA_URL \o NormalizedEndpoint(endpoint)

\* `${GRAPH_BASE_URL}${normalizedEndpoint}`
GetTextUrl(endpoint) == GRAPH_BASE_URL \o NormalizedEndpoint(endpoint)

\* accept: string = 'text/vtt'
AcceptOrDefault(accept) == IF accept.t = "undefined" THEN "text/vtt" ELSE accept.s[1]

\* variant: download sends the bearer header as well
DownloadHeaderBearer(p) == AuthorizationHeader(p)

\* fetch(downloadUrl): no options, no Authorization header
DownloadHeader(p) == <<>>

\* response.statusText
StatusText(st) == IF st = 404 THEN "Not Found" ELSE IF st = 200 THEN "OK" ELSE ""

\* the GraphApiError of a non-success status, lines 162-166 and 190-194
RawFailure(k, st) ==
    IF k = "download"
    THEN GraphApiError(<<"Failed to download file">>, st, Str("DOWNLOAD_FAILED"), Undefined)
    ELSE GraphApiError(<<"Failed to get text content", StatusText(st)>>, st,
                       Str("GET_TEXT_FAILED"), Undefined)

\* download(downloadUrl): fetch(downloadUrl)
StartDownload(p, downloadUrl) ==
    /\ pc[p] = "idle" /\ kind[p] = "download"
    /\ sent' = [sent EXCEPT ![p] =
                    [url |-> downloadUrl, method |-> "GET",
                     authorization |-> DownloadHeader(p), accept |-> "",
                     body |-> NoBody, given |-> ValUndefined]]
    /\ graphCalls' = [graphCalls EXCEPT ![p] = @ + 1]
    /\ pc' = [pc EXCEPT ![p] = "rawFetch"]
    /\ UNCHANGED <<now, tokenCache, apart, error, tokenVars, status, result>>

\* getText(endpoint, accept): the URL, then getAccessToken() up to its first await
StartGetText(p) ==
    /\ pc[p] = "idle" /\ kind[p] = "getText"
    /\ GetAccessTokenEntry(p)
    /\ UNCHANGED <<now, graphVars>>

\* lines 179-187: the fetch with the bearer token and the accept header
GetTextSend(p, endpoint, accept) ==
    /\ pc[p] = "tokenReady" /\ kind[p] = "getText"
    /\ sent' = [sent EXCEPT ![p] =
                    [url |-> GetTextUrl(endpoint), method |-> "GET",
                     authorization |-> AuthorizationHeader(p),
                     accept |-> AcceptOrDefault(accept),
                     body |-> NoBody, given |-> accept]]
    /\ graphCalls' = [graphCalls EXCEPT ![p] = @ + 1]
    /\ pc' = [pc EXCEPT ![p] = "rawFetch"]
    /\ UNCHANGED <<now, tokenCache, apart, error, tokenVars, status, result>>

\* await fetch(...) rejects: neither function catches it
RawFetchReject(p) ==
    /\ pc[p] = "rawFetch"
    /\ error' = [error EXCEPT ![p] = TypeError(<<"fetch failed">>)]
    /\ sent' = [sent EXCEPT ![p] = NoRequest]
    /\ pc' = [pc EXCEPT ![p] = "threw"]
    /\ token' = [token EXCEPT ![p] = Undefined]
    /\ UNCHANGED <<now, tokenCache, apart, tokenOk, tokenRequests, cleared,
                   clearPending, lastWrite, graphCalls, status, result>>

\* await fetch(...) resolves: if (!response.ok) throw, else response.text()
RawFetchResolve(p, st) ==
    /\ pc[p] = "rawFetch"
    /\ sent' = [sent EXCEPT ![p] = NoRequest]
    /\ IF ~IsOk(st)
       THEN /\ error' = [error EXCEPT ![p] = RawFailure(kind[p], st)]
            /\ pc' = [pc EXCEPT ![p] = "threw"]
            /\ UNCHANGED status
       ELSE /\ status' = [status EXCEPT ![p] = st]
            /\ pc' = [pc EXCEPT ![p] = "rawText"]
            /\ UNCHANGED error
    /\ token' = [token EXCEPT ![p] = Undefined]
    /\ UNCHANGED <<now, tokenCache, apart, tokenOk, tokenRequests, cleared,
                   clearPending, lastWrite, graphCalls, result>>

\* response.text() resolves: the text is returned as it is
RawTextResolve(p, text) ==
    /\ pc[p] = "rawText"
    /\ result' = [result EXCEPT ![p] = TextResult(text)]
    /\ pc' = [pc EXCEPT ![p] = "returned"]
    /\ status' = [status EXCEPT ![p] = 0]
    /\ UNCHANGED <<now, tokenCache, apart, error, tokenVars, graphCalls, sent>>

\* the token manager: overlapping direct calls of getAccessToken(),
\* clearTokenCache() and the clock
Next ==
    \/ \E p \in TokenCalls : StartGetAccessToken(p)
    \/ \E p \in TokenCalls : TokenFetchReject(p)
    \/ \E p \in TokenCalls, ok \in BOOLEAN : TokenFetchResolve(p, ok)
    \/ \E p \in TokenCalls : \E data \in TokenBodies(p) : TokenJsonResolve(p, data)
    \/ ClearTokenCache
    \/ Tick

Spec == Init /\ [][Next]_vars

\* the token manager with the clears recorded: for each call, whether
\* clearTokenCache() ran while its issuance request was outstanding
InitClear ==
    /\ InitCalls(ClearCalls, "getAccessToken")
    /\ response = NoResponse /\ urlArgs = NoUrlArgs /\ urlBuilt = NotBuilt
    /\ clearedInFlight = [p \in ClearCalls |-> FALSE]
    /\ clearPending = <<FALSE>> /\ observed = <<>>
    /\ NoToolCalls
NextClear ==
    \/ \E p \in ClearCalls : StartGetAccessToken(p)
    \/ \E p \in ClearCalls : TokenFetchReject(p)
    \/ \E p \in ClearCalls, ok \in BOOLEAN : TokenFetchResolve(p, ok)
    \/ \E p \in ClearCalls : \E data \in TokenBodies(p) : TokenJsonResolve(p, data)
    \/ ClearTokenCache
    \/ Tick
SpecClear == InitClear /\ [][NextClear]_vars

\* the request dispatcher: overlapping executions of request(), each with its
\* getAccessToken() call, clearTokenCache() and the clock
NextRequest ==
    \/ \E p \in Requests : StartRequest(p)
    \/ \E p \in Requests : TokenFetchReject(p)
    \/ \E p \in Requests, ok \in BOOLEAN : TokenFetchResolve(p, ok)
    \/ \E p \in Requests : \E data \in TokenBodies(p) : TokenJsonResolve(p, data)
    \/ \E p \in Requests, target \in RequestTargets, method \in Methods,
          body \in PlainBodyArgs :
          RequestSend(p, target, method, body)
    \/ \E p \in Requests : GraphFetchReject(p)
    \/ \E p \in Requests, st \in Statuses : GraphFetchResolve(p, st)
    \/ \E p \in Requests : \E text \in GraphTexts : GraphTextResolve(p, text)
    \/ ClearTokenCache
    \/ Tick

SpecRequest == InitRequest /\ [][NextRequest]_vars

\* index.ts, the catch clause of the CallTool handler: the error a tool
\* handler let through from request() is answered as text
CallToolCatch(p) ==
    /\ pc[p] = "threw"
    /\ toolResult' = [toolResult EXCEPT ![p] = ToolError(FormatError(error[p]))]
    /\ pc' = [pc EXCEPT ![p] = "answered"]
    /\ UNCHANGED <<now, tokenCache, kind, error, tokenVars, graphVars, response, urlArgs,
                   urlBuilt, clearedInFlight, toolVars, observed>>

\* ------------------------------------------------------------ tool handlers
\* three handlers in full: a list-style read (mailList), a write with an enum
\* argument (mailFlag) and the two-call chat creation (teamsCreateChat)
ObjectOf(pieces) == [t |-> "object", s |-> pieces, n |-> 0, b |-> FALSE]
ToolText(text) == [isError |-> FALSE, text |-> text]

\* input.user || graphClient.getDefaultUser()
UserOf(input, configured) == IF IsTruthy(input["user"]) THEN input["user"] ELSE configured
\* getDefaultUser() without config.defaultUser
NoUserError ==
    GraphApiError(<<"No user specified and DEFAULT_USER not configured">>, 400,
                  Str("NO_USER"), Undefined)

\* the parsed Graph bodies the handlers read members of: a list response (it
\* has a value array), a chat (it has an id and a chatType, no topic) and an
\* object with neither
HasValue(res) == res = Payload("list")
ChatId(res) == IF res = Payload("chat") THEN ValString(<<"19:abc">>) ELSE ValUndefined
ChatType(res) == IF res = Payload("chat") THEN ValString(<<"oneOnOne">>) ELSE ValUndefined

\* input.members.split(',').map(e => e.trim()): the members string is kept as
\* its addresses and the commas between them
MemberEmails(members) == SelectSeq(members.s, LAMBDA piece : piece # ",")
RequestedChatType(members) == IF Len(MemberEmails(members)) > 1 THEN "group" ELSE "oneOnOne"
UserBind(email) == <<"https://graph.microsoft.com/v1.0/users('", email, "')">>
RECURSIVE MemberObjects(_)
MemberObjects(emails) ==
    IF emails = <<>> THEN <<>>
    ELSE <<"{\"@odata.type\":\"#microsoft.graph.aadUserConversationMember\",",
           "\"roles\":[\"owner\"],", "\"user@odata.bind\":\"">>
         \o UserBind(Head(emails)) \o <<"\"}">>
         \o (IF Len(emails) > 1 THEN <<",">> ELSE <<>>)
         \o MemberObjects(Tail(emails))
\* the members of the new chat: the requesting user is added unless listed
ChatMembers(members, user) ==
    IF \E i \in DOMAIN MemberEmails(members) : <<MemberEmails(members)[i]>> = user.s
    THEN MemberEmails(members)
    ELSE MemberEmails(members) \o user.s
\* chatBody: chatType, members, and the topic of a group chat
ChatBody(input, user) ==
    ObjectOf(<<"\"chatType\":\"", RequestedChatType(input["members"]), "\",", "\"members\":[">>
             \o MemberObjects(ChatMembers(input["members"], user)) \o <<"]">>
             \o (IF IsTruthy(input["topic"]) /\ RequestedChatType(input["members"]) = "group"
                 THEN <<",", "\"topic\":\"">> \o input["topic"].s \o <<"\"">>
                 ELSE <<>>))

\* if (input.message && chat.id)
PostsMessage(input, chatResult) ==
    IsTruthy(input["message"]) /\ IsTruthy(ChatId(chatResult))

\* the downstream call a handler makes: its first one (calls = 0), or the
\* message post of teamsCreateChat
Target(endpoint, params) == [endpoint |-> endpoint, params |-> params, useBeta |-> FALSE]
Call(target, method, body) == [target |-> target, method |-> method, body |-> body]
SelectedMailFields ==
    <<"id", ",", "subject", ",", "from", ",", "receivedDateTime", ",", "isRead", ",",
      "bodyPreview", ",", "importance", ",", "hasAttachments">>
ToolRequest(handler, input, user, calls, chatResult) ==
    CASE handler = "mailList" ->
            Call(Target(<<"/", "users", "/">> \o user.s \o <<"/", "mailFolders", "/">>
                        \o input["folder"].s \o <<"/", "messages">>,
                        << Entry(<<"$", "top">>, input["top"]),
                           Entry(<<"$", "select">>, ValString(SelectedMailFields)),
                           Entry(<<"$", "orderby">>,
                                 ValString(<<"receivedDateTime", " ", "desc">>)),
                           Entry(<<"$", "filter">>, input["filter"]) >>),
                 "GET", ValUndefined)
      [] handler = "mailFlag" ->
            Call(Target(<<"/", "users", "/">> \o user.s \o <<"/", "messages", "/">>
                        \o input["messageId"].s, <<>>),
                 "PATCH",
                 ObjectOf(<<"\"flag\":{\"flagStatus\":\"">> \o input["flagStatus"].s
                          \o <<"\"}">>))
      [] handler = "teamsCreateChat" /\ calls = 0 ->
            Call(Target(<<"/", "chats">>, <<>>), "POST", ChatBody(input, user))
      [] OTHER ->
            Call(Target(<<"/", "chats", "/">> \o ChatId(chatResult).s \o <<"/", "messages">>,
                        <<>>),
                 "POST",
                 ObjectOf(<<"\"body\":{\"content\":\"">> \o input["message"].s \o <<"\"}">>))

\* JSON.stringify of a member: left out when undefined
Member(key, v) ==
    IF v.t = "undefined" THEN <<>> ELSE <<"\n", "\"", key, "\": ">> \o JsonStringify(v) \o <<",">>

\* messageSent: !!input.message
MessageSent(input, chatResult) == IsTruthy(input["message"])

\* the text teamsCreateChat returns
ChatText(input, chatResult) ==
    <<"{", "\n", "\"success\": true", ",">>
    \o Member("chatId", ChatId(chatResult))
    \o Member("chatType", ChatType(chatResult))
    \o <<"\n", "\"messageSent\": ",
         IF MessageSent(input, chatResult) THEN "true" ELSE "false", "\n", "}">>

\* what a handler does with the value its first request() returned: the text
\* it returns, or the error it throws
HandlerError(handler, res) ==
    IF handler = "mailList" /\ ~HasValue(res)
    THEN TypeError(<<"Cannot read properties of undefined (reading 'map')">>)
    ELSE NoError
HandlerText(handler, input, res) ==
    CASE handler = "mailList" -> <<"[", "\n", "message summaries", "\n", "]">>
      [] handler = "mailFlag" ->
            <<"{\"success\":true,\"message\":\"Email flag set to ">>
            \o input["flagStatus"].s \o <<"\"}">>
      [] OTHER -> ChatText(input, res)

\* index.ts lines 41-50 when getHandler returns no registered handler: the
\* error thrown inside the try block, or none when the inherited function
\* returns
LookupError(h, name) ==
    CASE h.t = "undefined" -> PlainError(<<"Unknown tool: ", name>>)
      [] h.t = "object" -> TypeError(<<"handler is not a function">>)
      [] h.f = "hasOwnProperty" -> TypeError(<<"Cannot convert undefined or null to object">>)
      [] OTHER -> NoError
\* Object.prototype.toString called without a receiver
InheritedText(h) == <<"[object Undefined]">>

\* variant: a looked-up name is entered into the handlers object
RegistryWithLookup(reg, name) ==
    [reg EXCEPT !.handlers = (name :> "looked up") @@ @]

\* getHandler and the CallTool handler only read allTools and allHandlers
RegistryAfterLookup(reg, name) == reg

\* the CallTool handler up to its first suspension: the lookup, and the
\* registered handler's parse, user and first request() up to the first await
\* of getAccessToken. A lookup that throws is caught and answered in the same
\* stretch; an inherited function that returns a text is awaited like a
\* handler, so the answer is built a turn later
CallTool(p) ==
    /\ pc[p] = "idle" /\ kind[p] = "tool"
    /\ LET name == invocation[p].name
           args == invocation[p].args
           h == GetHandler(registry.handlers, name)
           schema == SchemaOf(h.f)
           parsed == Parsed(schema, args)
       IN  IF h.t # "handler" /\ LookupError(h, name) # NoError
           THEN /\ error' = [error EXCEPT ![p] = LookupError(h, name)]
                /\ toolResult' = [toolResult EXCEPT ![p] =
                        ToolError(FormatError(LookupError(h, name)))]
                /\ pc' = [pc EXCEPT ![p] = "answered"]
                /\ UNCHANGED <<token, tokenRequests, clearPending, handlerResult>>
           ELSE IF h.t # "handler"
           THEN /\ handlerResult' = [handlerResult EXCEPT ![p] = InheritedText(h)]
                /\ pc' = [pc EXCEPT ![p] = "handled"]
                /\ UNCHANGED <<error, token, tokenRequests, clearPending, toolResult>>
           ELSE IF Issues(schema, args) # <<>>
           THEN /\ error' = [error EXCEPT ![p] = ZodError(Issues(schema, args))]
                /\ pc' = [pc EXCEPT ![p] = "threw"]
                /\ UNCHANGED <<token, tokenRequests, clearPending, toolResult,
                               handlerResult>>
           ELSE IF ~IsTruthy(UserOf(parsed, defaultUser))
           THEN /\ error' = [error EXCEPT ![p] = NoUserError]
                /\ pc' = [pc EXCEPT ![p] = "threw"]
                /\ UNCHANGED <<token, tokenRequests, clearPending, toolResult,
                               handlerResult>>
           ELSE /\ GetAccessTokenSteps(p)
                /\ UNCHANGED <<error, toolResult, handlerResult>>
    /\ registry' = RegistryAfterLookup(registry, invocation[p].name)
    /\ UNCHANGED <<now, tokenCache, kind, response, urlArgs, urlBuilt, clearedInFlight,
                   defaultUser, invocation, chat, listed, validated, observed, tokenOk,
                   cleared,
                   lastWrite, graphVars>>

\* request() of a tool handler once getAccessToken has returned: the fetch
ToolSend(p) ==
    /\ pc[p] = "tokenReady" /\ kind[p] = "tool"
    /\ LET h == GetHandler(registry.handlers, invocation[p].name)
           parsed == Parsed(SchemaOf(h.f), invocation[p].args)
           call == ToolRequest(h.f, parsed, UserOf(parsed, defaultUser), graphCalls[p],
                               result[p])
       IN  RequestFetch(p, call.target, call.method, call.body)

\* request() has returned to the handler: the handler returns its text (to
\* the await of the CallTool handler), throws, or (teamsCreateChat) posts the
\* initial message
ToolResume(p) ==
    /\ pc[p] = "returned" /\ kind[p] = "tool"
    /\ LET h == GetHandler(registry.handlers, invocation[p].name)
           parsed == Parsed(SchemaOf(h.f), invocation[p].args)
       IN  IF HandlerError(h.f, result[p]) # NoError
           THEN /\ error' = [error EXCEPT ![p] = HandlerError(h.f, result[p])]
                /\ pc' = [pc EXCEPT ![p] = "threw"]
                /\ UNCHANGED <<token, tokenRequests, clearPending, handlerResult, chat>>
           ELSE IF h.f = "teamsCreateChat" /\ graphCalls[p] = 1
                   /\ PostsMessage(parsed, result[p])
           THEN /\ chat' = [chat EXCEPT ![p] = result[p]]
                /\ GetAccessTokenSteps(p)
                /\ UNCHANGED <<error, handlerResult>>
           ELSE /\ handlerResult' = [handlerResult EXCEPT ![p] =
                        HandlerText(h.f, parsed,
                                    IF graphCalls[p] = 1 THEN result[p] ELSE chat[p])]
                /\ chat' = [chat EXCEPT ![p] = IF graphCalls[p] = 1 THEN result[p] ELSE @]
                /\ pc' = [pc EXCEPT ![p] = "handled"]
                /\ UNCHANGED <<error, token, tokenRequests, clearPending>>
    /\ UNCHANGED <<now, tokenCache, kind, response, urlArgs, urlBuilt, clearedInFlight,
                   registry, defaultUser, invocation, listed, validated, observed, tokenOk,
                   cleared, lastWrite, graphVars, toolResult>>

\* index.ts lines 51-55: await handler(args) resumes with the text the
\* handler returned, in a turn of its own after the handler's return, and the
\* answer is built from it
CallToolAnswer(p) ==
    /\ pc[p] = "handled" /\ kind[p] = "tool"
    /\ toolResult' = [toolResult EXCEPT ![p] = ToolText(handlerResult[p])]
    /\ pc' = [pc EXCEPT ![p] = "answered"]
    /\ UNCHANGED <<now, tokenCache, kind, error, tokenVars, graphVars, response, urlArgs,
                   urlBuilt, clearedInFlight, toolVars, observed>>

\* the next CallTool request arrives once the last one is answered: a new
\* invocation with locals of its own; what the process keeps is the cache
NextCall(p, request) ==
    /\ pc[p] = "answered" /\ kind[p] = "tool"
    /\ invocation' = [invocation EXCEPT ![p] = request]
    /\ pc' = [pc EXCEPT ![p] = "idle"]
    /\ toolResult' = [toolResult EXCEPT ![p] = NoToolResult]
    /\ error' = [error EXCEPT ![p] = NoError]
    /\ tokenOk' = [tokenOk EXCEPT ![p] = FALSE]
    /\ token' = [token EXCEPT ![p] = Undefined]
    /\ tokenRequests' = [tokenRequests EXCEPT ![p] = 0]
    /\ graphCalls' = [graphCalls EXCEPT ![p] = 0]
    /\ result' = [result EXCEPT ![p] = NoResult]
    /\ chat' = [chat EXCEPT ![p] = NoResult]
    /\ handlerResult' = [handlerResult EXCEPT ![p] = <<>>]
    /\ observed' = [q \in DOMAIN observed |-> IF q = p THEN <<>> ELSE observed[q]]
    /\ UNCHANGED <<now, tokenCache, kind, cleared, clearPending, lastWrite, sent, status,
                   response, urlArgs, urlBuilt, clearedInFlight, registry, defaultUser,
                   listed, validated>>

\* index.ts lines 34-38: return { tools: allTools }
ListedTools(reg) == reg.tools
ListTools ==
    /\ listed' = ListedTools(registry)
    /\ UNCHANGED <<now, tokenCache, kind, pc, error, tokenVars, graphVars, response, urlArgs,
                   urlBuilt, toolResult, clearedInFlight, registry, defaultUser, invocation,
                   chat, handlerResult, validated, observed>>

\* the CallTool requests of the behaviours: an unregistered name, names that
\* Object.prototype has, and the modelled tools with bags of supplied,
\* omitted, ill-typed, out-of-range and undeclared arguments
UnregisteredNames == {"m365_bogus", "toString", "hasOwnProperty", "__proto__"}
SomeUser == ValString(<<"u@contoso.com">>)
Bags(values) == { bag \in [DOMAIN values -> UNION { values[k] : k \in DOMAIN values }] :
                    \A k \in DOMAIN values : bag[k] \in values[k] }
MailListBags ==
    Bags([user |-> {ValUndefined, SomeUser},
          folder |-> {ValUndefined, ValString(<<"archive">>), ValNumber(5)},
          top |-> {ValUndefined, ValNumber(0), ValNumber(5), ValNumber(101)},
          filter |-> {ValUndefined, ValString(<<"isRead", " ", "eq", " ", "false">>)}])
MailFlagBags ==
    Bags([messageId |-> {ValUndefined, ValString(<<"AAMk1">>), ValNumber(7)},
          flagStatus |-> {ValUndefined, ValString(<<"complete">>), ValString(<<"done">>),
                          ValNull},
          extra |-> {ValUndefined, ValString(<<"x">>)}])
CreateChatBags ==
    Bags([user |-> {ValUndefined, SomeUser},
          members |-> {ValUndefined, ValString(<<"a@contoso.com">>),
                       ValString(<<"a@contoso.com", ",", "b@contoso.com">>),
                       ValString(<<"u@contoso.com">>)},
          topic |-> {ValUndefined, ValString(<<"plans">>)},
          message |-> {ValUndefined, ValString(<<"hi">>), ValString(<<>>)}])
Invoke(name, args) == [name |-> name, args |-> args]
Invocations ==
    { Invoke(name, [extra |-> ValUndefined]) : name \in UnregisteredNames }
    \cup { Invoke("m365_mail_list", args) : args \in MailListBags }
    \cup { Invoke("m365_mail_flag", args) : args \in MailFlagBags }
    \cup { Invoke("m365_teams_create_chat", args) : args \in CreateChatBags }
ConfiguredUsers == {ValUndefined, ValString(<<"me@contoso.com">>)}

\* the responses of the Graph API to a tool's calls
ToolStatuses == {200, 202, 403}
ToolTexts ==
    { GraphText(<<>>, "empty", "", NoErrorObject),
      GraphText(Chars(5), "object", "list", NoErrorObject),
      GraphText(Chars(6), "object", "item", NoErrorObject),
      GraphText(Chars(7), "object", "chat", NoErrorObject),
      GraphText(Chars(8), "object", "errorBody",
                ErrorObject(Str("Forbidden"), Str("Access denied"), Str("req-1"))) }

\* the tool dispatch entry point: one CallTool request with its handler, the
\* token endpoint and the Graph API, and ListTools requests
OneToolCall == {1}
InitTool ==
    /\ InitCalls(OneToolCall, "tool")
    /\ response = NoResponse /\ urlArgs = NoUrlArgs /\ urlBuilt = NotBuilt
    /\ clearedInFlight = <<>> /\ clearPending = <<>> /\ observed = <<>>
    /\ registry = Registry
    /\ defaultUser \in ConfiguredUsers
    /\ invocation \in [OneToolCall -> Invocations]
    /\ chat = [p \in OneToolCall |-> NoResult]
    /\ handlerResult = [p \in OneToolCall |-> <<>>]
    /\ listed = <<>> /\ validated = <<>>
NextTool ==
    \/ \E p \in OneToolCall : CallTool(p)
    \/ \E p \in OneToolCall : TokenFetchReject(p)
    \/ \E p \in OneToolCall, ok \in BOOLEAN : TokenFetchResolve(p, ok)
    \/ \E p \in OneToolCall : \E data \in TokenBodies(p) : TokenJsonResolve(p, data)
    \/ \E p \in OneToolCall : ToolSend(p)
    \/ \E p \in OneToolCall : GraphFetchReject(p)
    \/ \E p \in OneToolCall, st \in ToolStatuses : GraphFetchResolve(p, st)
    \/ \E p \in OneToolCall : \E text \in ToolTexts : GraphTextResolve(p, text)
    \/ \E p \in OneToolCall : ToolResume(p)
    \/ \E p \in OneToolCall : CallToolAnswer(p)
    \/ \E p \in OneToolCall : CallToolCatch(p)
    \/ \E p \in OneToolCall, request \in Invocations : NextCall(p, request)
    \/ ListTools
SpecTool == InitTool /\ [][NextTool]_vars

\* -------------------------------------- CallTool requests served together
\* the server awaits nothing between two requests: a second CallTool request
\* is dispatched while the first is suspended in a fetch. Two invocations,
\* interleaved in every order, with the token endpoint, the Graph API, the
\* clock and clearTokenCache()
SharedCalls == {1, 2}
SharedInvocations ==
    { Invoke("m365_bogus", [extra |-> ValUndefined]),
      Invoke("m365_mail_flag",
             [messageId |-> ValString(<<"AAMk1">>), flagStatus |-> ValUndefined,
              extra |-> ValUndefined]),
      Invoke("m365_mail_flag",
             [messageId |-> ValUndefined, flagStatus |-> ValString(<<"done">>),
              extra |-> ValUndefined]),
      Invoke("m365_teams_create_chat",
             [user |-> SomeUser, members |-> ValString(<<"a@contoso.com">>),
              topic |-> ValUndefined, message |-> ValString(<<"hi">>)]) }
\* the token endpoint answers the requests of both invocations alike
SharedTokenBodies ==
    { BodyObject(Str("invalid_client"), Str("bad secret"), Undefined, UndefinedNum),
      BodyObject(Undefined, Undefined, Str(IssuedToken(1)), Num(90)) }
SharedStatuses == {200, 403}
SharedTexts ==
    { GraphText(Chars(6), "object", "item", NoErrorObject),
      GraphText(Chars(7), "object", "chat", NoErrorObject),
      GraphText(Chars(8), "object", "errorBody",
                ErrorObject(Str("Forbidden"), Str("Access denied"), Str("req-1"))) }
InitShared ==
    /\ InitCalls(SharedCalls, "tool")
    /\ response = NoResponse /\ urlArgs = NoUrlArgs /\ urlBuilt = NotBuilt
    /\ clearedInFlight = <<>> /\ clearPending = <<>>
    /\ observed = [p \in SharedCalls |-> <<>>]
    /\ registry = Registry
    /\ defaultUser = ValUndefined
    /\ invocation \in [SharedCalls -> SharedInvocations]
    /\ chat = [p \in SharedCalls |-> NoResult]
    /\ handlerResult = [p \in SharedCalls |-> <<>>]
    /\ listed = <<>> /\ validated = <<>>
NextShared ==
    \/ \E p \in SharedCalls : CallTool(p)
    \/ \E p \in SharedCalls : TokenFetchReject(p)
    \/ \E p \in SharedCalls, ok \in BOOLEAN : TokenFetchResolve(p, ok)
    \/ \E p \in SharedCalls : \E data \in SharedTokenBodies : TokenJsonResolve(p, data)
    \/ \E p \in SharedCalls : ToolSend(p)
    \/ \E p \in SharedCalls : GraphFetchReject(p)
    \/ \E p \in SharedCalls, st \in SharedStatuses : GraphFetchResolve(p, st)
    \/ \E p \in SharedCalls : \E text \in SharedTexts : GraphTextResolve(p, text)
    \/ \E p \in SharedCalls : ToolResume(p)
    \/ \E p \in SharedCalls : CallToolAnswer(p)
    \/ \E p \in SharedCalls : CallToolCatch(p)
    \/ ClearTokenCache
    \/ Tick
SpecShared == InitShared /\ [][NextShared]_vars

\* ------------------------------------------------ schema.parse(args), alone
\* the first statement of every handler: const input = <schema>.parse(args).
\* It throws the ZodError of the issues, or returns the validated input
NoInput == <<>>
SchemaParse(p) ==
    /\ pc[p] = "idle" /\ kind[p] = "parse"
    /\ LET schema == SchemaOf(GetHandler(registry.handlers, invocation[p].name).f)
           issues == Issues(schema, invocation[p].args)
       IN  IF issues # <<>>
           THEN /\ error' = [error EXCEPT ![p] = ZodError(issues)]
                /\ pc' = [pc EXCEPT ![p] = "threw"]
                /\ UNCHANGED validated
           ELSE /\ validated' = [validated EXCEPT ![p] = Parsed(schema, invocation[p].args)]
                /\ pc' = [pc EXCEPT ![p] = "parsed"]
                /\ UNCHANGED error
    /\ UNCHANGED <<now, tokenCache, kind, tokenVars, graphVars, response, urlArgs, urlBuilt,
                   toolResult, clearedInFlight, registry, defaultUser, invocation, chat,
                   listed, handlerResult, observed>>

\* the argument bags schema.parse is given: for every registered tool, a bag
\* that supplies a valid value for every declared field, and every bag that
\* differs from it in at most MaxDeviations keys: a field omitted, null,
\* another valid value (the empty string, false, a bound, another option), a
\* value of another type, a number off the bounds, or a key the schema does
\* not declare
MaxDeviations == 2
UndeclaredKey == "extra"
FieldOf(schema, key) == CHOOSE f \in { schema[i] : i \in DOMAIN schema } : f.key = key
SampleValue(field) ==
    CASE field.type = "string" -> SomeUser
      [] field.type = "number" -> ValNumber(IF field.bounded THEN field.min ELSE 7)
      [] field.type = "boolean" -> ValBoolean(TRUE)
      [] field.type = "enum" -> ValString(CHOOSE o \in field.options : TRUE)
OtherValues(field) ==
    {ValUndefined, ValNull}
    \cup CASE field.type = "string" -> {ValString(<<>>), ValNumber(5)}
           [] field.type = "number" ->
                IF field.bounded
                THEN {ValNumber(field.max), ValNumber(field.min - 1),
                      ValNumber(field.max + 1), ValString(<<"5">>)}
                ELSE {ValNumber(0), ValNumber(0 - 1), ValString(<<"5">>)}
           [] field.type = "boolean" ->
                {ValBoolean(FALSE), ValString(<<"true">>), ValNumber(0)}
           [] field.type = "enum" ->
                {ValString(o) : o \in field.options}
                \cup {ValString(<<"other">>), ValNumber(5)}
CompleteBag(schema) ==
    [key \in Keys(schema) \cup {UndeclaredKey} |->
        IF key \in Keys(schema) THEN SampleValue(FieldOf(schema, key)) ELSE ValUndefined]
Deviations(schema, key) ==
    IF key \in Keys(schema) THEN OtherValues(FieldOf(schema, key))
    ELSE {ValString(<<"x">>)}
RECURSIVE Deviate(_, _, _, _)
Deviate(schema, bag, keys, k) ==
    IF k = 0 \/ keys = {} THEN {bag}
    ELSE LET key == CHOOSE x \in keys : TRUE
         IN  Deviate(schema, bag, keys \ {key}, k)
             \cup UNION { Deviate(schema, [bag EXCEPT ![key] = v], keys \ {key}, k - 1) :
                            v \in Deviations(schema, key) }
ParseBags(schema) ==
    Deviate(schema, CompleteBag(schema), DOMAIN CompleteBag(schema), MaxDeviations)
ParseInvocations ==
    UNION { { Invoke(name, args) : args \in ParseBags(SchemaOf(AllHandlers[name])) } :
              name \in DOMAIN AllHandlers }

\* one schema.parse call for every tool and every such bag
OneParseCall == {1}
InitParse ==
    /\ InitCalls(OneParseCall, "parse")
    /\ response = NoResponse /\ urlArgs = NoUrlArgs /\ urlBuilt = NotBuilt
    /\ clearedInFlight = <<>> /\ clearPending = <<>> /\ observed = <<>>
    /\ registry = Registry
    /\ defaultUser = ValUndefined
    /\ invocation \in [OneParseCall -> ParseInvocations]
    /\ chat = <<>> /\ listed = <<>> /\ handlerResult = <<>>
    /\ validated = [p \in OneParseCall |-> NoInput]
NextParse == \E p \in OneParseCall : SchemaParse(p)
SpecParse == InitParse /\ [][NextParse]_vars

\* one request() made for a tool call, with every target, verb and body
\* argument, answered by the response the Graph API holds ready for it
OneRequest == {1}
InitDispatch ==
    /\ InitCalls(OneRequest, "request")
    /\ response \in DispatchResponses
    /\ urlArgs = NoUrlArgs
    /\ urlBuilt = NotBuilt
    /\ clearedInFlight = <<>> /\ clearPending = <<>> /\ observed = <<>>
    /\ NoToolCalls
NextDispatch ==
    \/ \E p \in OneRequest : StartRequest(p)
    \/ \E p \in OneRequest : TokenFetchReject(p)
    \/ \E p \in OneRequest, ok \in BOOLEAN : TokenFetchResolve(p, ok)
    \/ \E p \in OneRequest : \E data \in TokenBodies(p) : TokenJsonResolve(p, data)
    \/ \E p \in OneRequest, target \in RequestTargets, method \in Methods, body \in BodyArgs :
          RequestSend(p, target, method, body)
    \/ \E p \in OneRequest : GraphFetchReject(p)
    \/ \E p \in OneRequest : GraphFetchResolve(p, response.status)
    \/ \E p \in OneRequest : GraphTextResolve(p, response.text)
    \/ \E p \in OneRequest : CallToolCatch(p)
SpecDispatch == InitDispatch /\ [][NextDispatch]_vars

\* the raw modes: overlapping getText() and download() calls (odd and even
\* call numbers), clearTokenCache() and the clock
InitRaw == InitCalls(RawCalls, "raw") /\ NothingApart
NextRaw ==
    \/ \E p \in RawCalls, downloadUrl \in DownloadUrls : StartDownload(p, downloadUrl)
    \/ \E p \in RawCalls : StartGetText(p)
    \/ \E p \in RawCalls : TokenFetchReject(p)
    \/ \E p \in RawCalls, ok \in BOOLEAN : TokenFetchResolve(p, ok)
    \/ \E p \in RawCalls : \E data \in TokenBodies(p) : TokenJsonResolve(p, data)
    \/ \E p \in RawCalls, endpoint \in TextEndpoints, accept \in AcceptArgs :
          GetTextSend(p, endpoint, accept)
    \/ \E p \in RawCalls : RawFetchReject(p)
    \/ \E p \in RawCalls, st \in RawStatuses : RawFetchResolve(p, st)
    \/ \E p \in RawCalls, text \in RawTexts : RawTextResolve(p, text)
    \/ ClearTokenCache
    \/ Tick
SpecRaw == InitRaw /\ [][NextRaw]_vars

\* buildUrl as a function of its arguments: a call with every endpoint string,
\* parameter map and surface of the bounded sets
InitUrl ==
    /\ InitCalls({}, "request")
    /\ response = NoResponse
    /\ urlArgs \in UrlArgs
    /\ urlBuilt = NotBuilt
    /\ clearedInFlight = <<>> /\ clearPending = <<>> /\ observed = <<>>
    /\ NoToolCalls
NextUrl == BuildUrlCall
SpecUrl == InitUrl /\ [][NextUrl]_vars

\* ------------------------------------------------------------ properties
\* the claims state freshness and the stored Credential in their own terms
MoreThanMarginLeft(cache, t) ==
    cache.present /\ cache.expiresAt.t = "number" /\ cache.expiresAt.v - t > 60 * 1000
EmptyOrAtMostMarginLeft(cache, t) ==
    ~cache.present \/ (cache.expiresAt.t = "number" /\ cache.expiresAt.v - t <= 60 * 1000)
ExpectedCredential(w) ==
    [present |-> TRUE,
     accessToken |-> w.data.access_token,
     expiresAt |-> IF w.data.expires_in.t = "number"
                   THEN Num(w.at + w.data.expires_in.v * 1000) ELSE NaN]
TokenPhase == {"idle", "tokenFetch", "tokenJson"}

\* C1: a getAccessToken call made while the cached Credential has more than
\* 60 seconds left returns the cached token at once, sends no issuance request
\* (neither it nor any other call gains one) and leaves the cache unchanged.
C1_TokenReuse ==
    [][\A p \in Calls :
        (pc[p] = "idle" /\ pc'[p] # "idle" /\ MoreThanMarginLeft(tokenCache, now)) =>
            /\ pc'[p] = "returned"
            /\ token'[p] = tokenCache.accessToken
            /\ tokenRequests' = tokenRequests
            /\ tokenCache' = tokenCache]_vars
\* a call holds the token another call cached, without a request of its own
C1_Witness ==
    \E p \in Calls :
        /\ pc[p] = "returned" /\ tokenRequests[p] = 0
        /\ lastWrite.by \in Calls \ {p}
        /\ token[p] = lastWrite.data.access_token /\ token[p].t = "string"
        /\ tokenRequests[lastWrite.by] = 1

\* C2: a getAccessToken call made while the cache is empty or its Credential
\* has at most 60 seconds left sends one issuance request, and sends no other
\* one before it returns or fails.
C2_TokenRefresh ==
    [][\A p \in Calls :
        /\ (pc[p] = "idle" /\ pc'[p] # "idle" /\ EmptyOrAtMostMarginLeft(tokenCache, now)) =>
              (pc'[p] = "tokenFetch" /\ tokenRequests[p] = 0 /\ tokenRequests'[p] = 1)
        /\ pc[p] # "idle" => tokenRequests'[p] = tokenRequests[p]]_vars
\* a refresh is in flight while the cache holds another call's Credential with
\* exactly 60 seconds left
C2_Witness ==
    \E p \in Calls :
        /\ pc[p] = "tokenFetch" /\ tokenRequests[p] = 1
        /\ lastWrite.by \in Calls \ {p}
        /\ tokenCache.present /\ tokenCache.expiresAt = Num(now + 60 * 1000)

\* C3: the cache is always empty or exactly the Credential built from the
\* success response processed last, never parts of two; unless cleared since,
\* it holds that Credential once a success response has been processed.
C3_LastWriteWins ==
    /\ tokenCache.present =>
          (lastWrite.by \in Calls /\ tokenCache = ExpectedCredential(lastWrite))
    /\ (lastWrite.by \in Calls /\ ~cleared) => tokenCache.present
\* two calls sent their own request and got their own token; the cache holds
\* the later one's Credential, which expires before the earlier one's
C3_Witness ==
    \E p, q \in Calls :
        /\ p # q /\ lastWrite.by = q
        /\ pc[p] = "returned" /\ pc[q] = "returned"
        /\ tokenRequests[p] = 1 /\ tokenRequests[q] = 1
        /\ token[p] = Str(IssuedToken(p)) /\ token[q] = Str(IssuedToken(q))
        /\ tokenCache.accessToken = token[q]
        /\ tokenCache.expiresAt.t = "number" /\ tokenCache.expiresAt.v < 90 * 1000

\* C4: no step a call takes before getAccessToken returns to it changes the
\* cache, and a call that fails there fails with AuthError.
C4_NoCachingOnFailure ==
    [][\A p \in Calls :
        (pc[p] \in TokenPhase /\ pc'[p] # pc[p] /\ pc'[p] # "returned") =>
            /\ tokenCache' = tokenCache
            /\ pc'[p] \in {"tokenFetch", "tokenJson", "threw"}
            /\ pc'[p] = "threw" => error'[p].name = "AuthError"]_vars
\* an issuance failed while the cache holds another call's stale Credential
C4_Witness ==
    \E p \in Calls :
        /\ pc[p] = "threw" /\ error[p].name = "AuthError" /\ tokenRequests[p] = 1
        /\ lastWrite.by \in Calls \ {p}
        /\ tokenCache = ExpectedCredential(lastWrite)
        /\ tokenCache.expiresAt.t = "number" /\ tokenCache.expiresAt.v - now <= 60 * 1000

\* C5: processing a success response replaces the cache by the Credential of
\* the issued access_token expiring expires_in seconds after that moment, and
\* returns the issued access_token.
C5_SuccessReplacesCache ==
    [][\A p \in Calls :
        (pc[p] = "tokenJson" /\ pc'[p] = "returned") =>
            /\ lastWrite'.by = p /\ lastWrite'.at = now
            /\ tokenCache'.present
            /\ tokenCache'.accessToken = lastWrite'.data.access_token
            /\ lastWrite'.data.expires_in.t = "number" =>
                  tokenCache'.expiresAt = Num(now + lastWrite'.data.expires_in.v * 1000)
            /\ token'[p] = lastWrite'.data.access_token]_vars
\* a 90-second token was stored over another call's Credential, one tick
\* after the start
C5_Witness ==
    \E p \in Calls :
        /\ lastWrite.by = p /\ lastWrite.at = now /\ now > 0
        /\ pc[p] = "returned" /\ token[p] = Str(IssuedToken(p))
        /\ tokenCache = Credential(token[p], Num(now + 90 * 1000))
        /\ \E q \in Calls \ {p} : tokenRequests[q] = 1 /\ pc[q] \notin TokenPhase
                                  /\ error[q].name = "none"

\* a call enters getAccessToken; it is the first one since clearTokenCache
Enters(p) == pc[p] = "idle" /\ pc'[p] # "idle"
NextAfterClear(p) == Enters(p) /\ clearPending = <<TRUE>>

C7_ExpiryAfterIssue ==
    (tokenCache.present /\ tokenCache.expiresAt.t = "number") =>
        tokenCache.expiresAt.v > lastWrite.at

\* C8: getAccessToken returns a token string the endpoint issued, or fails
\* with AuthError.
C8_TokenOrAuthError ==
    \A p \in Calls :
        /\ pc[p] = "returned" =>
              (token[p].t = "string" /\ \E q \in Calls : token[p].s = IssuedToken(q))
        /\ pc[p] = "threw" => error[p].name = "AuthError"

\* C9: a request() execution sends at most one issuance request and at most
\* one downstream call; it ends after a failed issuance without a downstream
\* call, and after one downstream call whatever the response was.
C9_NothingRetried ==
    \A p \in Calls :
        /\ tokenRequests[p] <= 1 /\ graphCalls[p] <= 1
        /\ error[p].name = "AuthError" =>
              (pc[p] = "threw" /\ tokenRequests[p] = 1 /\ graphCalls[p] = 0)
        /\ error[p].name \in {"GraphApiError", "TypeError"} =>
              (pc[p] = "threw" /\ graphCalls[p] = 1)
        /\ result[p].type # "none" => (pc[p] = "returned" /\ graphCalls[p] = 1)
\* a request that refreshed the token ended on a 500 answer after one
\* downstream call
C9_Witness ==
    \E p \in Calls :
        /\ pc[p] = "threw" /\ error[p].name = "GraphApiError" /\ error[p].statusCode = 500
        /\ tokenRequests[p] = 1 /\ graphCalls[p] = 1

\* C10: a downstream call is in flight only after getAccessToken returned to
\* the request, its Authorization header is Bearer followed by that value, and
\* a request whose getAccessToken failed has sent no downstream call.
C10_CredentialAttachment ==
    \A p \in Calls :
        /\ pc[p] \in TokenPhase => (graphCalls[p] = 0 /\ sent[p] = NoRequest)
        /\ pc[p] = "graphFetch" =>
              /\ graphCalls[p] = 1
              /\ sent[p].authorization =
                    <<"Bearer", IF token[p].t = "string" THEN token[p].s ELSE "undefined">>
        /\ error[p].name = "AuthError" => (pc[p] = "threw" /\ graphCalls[p] = 0)
\* a downstream call carries the token its request obtained although the
\* cache has been cleared since
C10_Witness ==
    \E p \in Calls :
        /\ pc[p] = "graphFetch" /\ token[p] = Str(IssuedToken(p))
        /\ sent[p].authorization = <<"Bearer", IssuedToken(p)>>
        /\ cleared /\ tokenCache.accessToken # token[p]

\* the query of a URL string read back: the text after "?", cut at "&" and
\* "=", with the form encoding undone
RECURSIVE SplitAt(_, _, _)
SplitAt(str, sep, buffer) ==
    IF str = <<>> THEN <<buffer>>
    ELSE IF Head(str) = sep
         THEN <<buffer>> \o SplitAt(Tail(str), sep, <<>>)
         ELSE SplitAt(Tail(str), sep, Append(buffer, Head(str)))
FormDecode(str) ==
    [i \in DOMAIN str |->
        CASE str[i] = "+" -> " "
          [] str[i] = "%24" -> "$"
          [] str[i] = "%2F" -> "/"
          [] OTHER -> str[i]]
BeforeQuery(href) == Head(SplitAt(href, "?", <<>>))
QueryPairs(href) ==
    LET parts == SplitAt(href, "?", <<>>)
        pairs == IF Len(parts) < 2 THEN <<>> ELSE SplitAt(parts[2], "&", <<>>)
    IN  [i \in DOMAIN pairs |->
            [key |-> FormDecode(Head(SplitAt(pairs[i], "=", <<>>))),
             value |-> FormDecode(SplitAt(pairs[i], "=", <<>>)[2])]]
\* the values the claim excludes, and the text of the others
IsExcluded(v) == v \in {ValUndefined, ValNull, ValString(<<>>)}
TextOf(v) ==
    CASE v.t = "string" -> v.s
      [] v.t = "number" -> <<ToString(v.n)>>
      [] v.t = "boolean" -> IF v.b THEN <<"true">> ELSE <<"false">>
Included(params) == SelectSeq(params, LAMBDA e : ~IsExcluded(e.value))

\* C16: in the URL buildUrl returns, a parameter whose value is undefined,
\* null or '' does not occur, every other parameter (0 and false included)
\* occurs once with the text of its value, and building from the map without
\* the excluded parameters returns the same URL.
C16_QueryFiltering ==
    urlBuilt.done =>
        LET pairs == QueryPairs(urlBuilt.href)
            params == urlArgs.params
        IN  /\ \A i \in DOMAIN params :
                  LET at == { j \in DOMAIN pairs : pairs[j].key = params[i].key }
                  IN  IF IsExcluded(params[i].value)
                      THEN at = {}
                      ELSE /\ Cardinality(at) = 1
                           /\ \A j \in at : pairs[j].value = TextOf(params[i].value)
            /\ Len(pairs) = Len(Included(params))
            /\ BuildUrl(urlArgs.endpoint, Included(params), urlArgs.useBeta) = urlBuilt.href
\* a map with a 0 and an undefined value gave a URL whose query is the 0 alone
C16_Witness ==
    /\ urlBuilt.done
    /\ \E i, j \in DOMAIN urlArgs.params :
          /\ urlArgs.params[i].value = ValUndefined
          /\ urlArgs.params[j].value = ValNumber(0)
          /\ QueryPairs(urlBuilt.href) = <<[key |-> urlArgs.params[j].key, value |-> <<"0">>]>>

\* C17: the URL buildUrl returns is the selected base, then the endpoint with
\* exactly one leading "/", then the retained parameters in map order.
RECURSIVE StripLeadingSlashes(_)
StripLeadingSlashes(str) ==
    IF str # <<>> /\ Head(str) = "/" THEN StripLeadingSlashes(Tail(str)) ELSE str
C17_UrlConstruction ==
    urlBuilt.done =>
        /\ BeforeQuery(urlBuilt.href) =
              (IF urlArgs.useBeta THEN GRAPH_BETA_URL ELSE GRAPH_BASE_URL)
              \o <<"/">> \o StripLeadingSlashes(urlArgs.endpoint)
        /\ [i \in DOMAIN QueryPairs(urlBuilt.href) |-> QueryPairs(urlBuilt.href)[i].key] =
              [i \in DOMAIN Included(urlArgs.params) |-> Included(urlArgs.params)[i].key]

\* the response of the request was received and handled
Handled(p) ==
    /\ graphCalls[p] = 1 /\ pc[p] \in {"returned", "threw", "answered"}
    /\ error[p] # TypeError(<<"fetch failed">>)
InSuccessRange(st) == st >= 200 /\ st <= 299
NoContentStatus(st) == st \in {202, 204}
FailedWith(p, code) ==
    /\ pc[p] \in {"threw", "answered"} /\ result[p] = NoResult
    /\ error[p].name = "GraphApiError" /\ error[p].code = Str(code)
    /\ error[p].statusCode = response.status
Succeeded(p, value) ==
    pc[p] = "returned" /\ result[p] = value /\ error[p] = NoError

\* C11: a response with status 202 or 204 yields the success marker and no
\* error, whatever its body.
C11_NoContentFirst ==
    \A p \in Calls :
        (Handled(p) /\ NoContentStatus(response.status)) => Succeeded(p, SuccessMarker)
\* a 202 response whose body is an error object, and a 204 response whose
\* body is not JSON, gave the success marker
C11_Witness ==
    \E p \in Calls :
        /\ Handled(p) /\ Succeeded(p, SuccessMarker)
        /\ \/ response.status = 202 /\ response.text.error.present
           \/ response.status = 204 /\ response.text.parse = "fail"

\* C12: a response with an empty body and a status other than 202 and 204
\* yields the success marker, also for a status outside the success range.
C12_EmptyBodySuccess ==
    \A p \in Calls :
        (Handled(p) /\ ~NoContentStatus(response.status) /\ response.text.raw = <<>>) =>
            Succeeded(p, SuccessMarker)
\* a 500 response with an empty body gave the success marker
C12_Witness ==
    \E p \in Calls :
        /\ Handled(p) /\ response.status = 500 /\ response.text.raw = <<>>
        /\ Succeeded(p, SuccessMarker)

\* C13: a non-empty body that is not JSON (status not 202 or 204) fails with
\* GraphApiError INVALID_JSON carrying the status and the first 100
\* characters of the text at most.
C13_InvalidJson ==
    \A p \in Calls :
        (/\ Handled(p) /\ ~NoContentStatus(response.status)
         /\ response.text.raw # <<>> /\ response.text.parse = "fail") =>
            /\ FailedWith(p, "INVALID_JSON")
            /\ LET quoted == error[p].message[2]
               IN  /\ Len(quoted) <= 100 /\ Len(quoted) <= Len(response.text.raw)
                   /\ quoted = SubSeq(response.text.raw, 1, Len(quoted))
                   /\ Len(quoted) = 100 \/ quoted = response.text.raw
\* a 200 response with 101 characters that are not JSON failed with
\* INVALID_JSON quoting 100 of them
C13_Witness ==
    \E p \in Calls :
        /\ Handled(p) /\ response.status = 200 /\ Len(response.text.raw) = 101
        /\ FailedWith(p, "INVALID_JSON") /\ Len(error[p].message[2]) = 100

\* C14: a parsed body with an error object, or a status outside the success
\* range, fails with a GraphApiError carrying the issuer's message, the
\* status, the issuer's code or UNKNOWN when it gave none, and the request id
\* when present; the answer for 403 Forbidden / Access denied is an error text
\* containing 403, Access denied and Forbidden.
Contains(str, piece) == \E i \in DOMAIN str : str[i] = piece
C14_UpstreamError ==
    \A p \in Calls :
        /\ (/\ Handled(p) /\ ~NoContentStatus(response.status)
            /\ response.text.parse \in {"object", "null"}
            /\ response.text.error.present \/ ~InSuccessRange(response.status)) =>
              /\ FailedWith(p, IF response.text.error.code.t = "string"
                               THEN response.text.error.code.s ELSE "UNKNOWN")
              /\ response.text.error.present =>
                    /\ error[p].message = <<response.text.error.message.s>>
                    /\ error[p].requestId = response.text.error.requestId
        /\ (/\ pc[p] = "answered" /\ Handled(p) /\ response.status = 403
            /\ response.text.error.present
            /\ response.text.error.code = Str("Forbidden")
            /\ response.text.error.message = Str("Access denied")) =>
              /\ toolResult[p].isError
              /\ Contains(toolResult[p].text, "403")
              /\ Contains(toolResult[p].text, "Access denied")
              /\ Contains(toolResult[p].text, "Forbidden")

\* C15: every response has exactly one outcome, that of the first matching
\* rule among 202/204, empty body, unparsable body, error object or
\* non-success status; otherwise the parsed body is the payload.
C15_TotalOrdered ==
    \A p \in Calls :
        Handled(p) =>
            /\ (result[p] = NoResult) # (error[p] = NoError)
            /\ CASE NoContentStatus(response.status) -> Succeeded(p, SuccessMarker)
                 [] response.text.raw = <<>> -> Succeeded(p, SuccessMarker)
                 [] response.text.parse = "fail" -> FailedWith(p, "INVALID_JSON")
                 [] response.text.error.present \/ ~InSuccessRange(response.status) ->
                       error[p].name = "GraphApiError" /\ error[p].code # Str("INVALID_JSON")
                 [] OTHER -> Succeeded(p, Payload(response.text.name))

\* C18: the downstream call carries a JSON body exactly when the verb is POST
\* or PATCH and a body was supplied, whatever the supplied value.
C18_BodyAttachment ==
    \A p \in Calls :
        pc[p] = "graphFetch" =>
            /\ sent[p].body.present <=>
                  (sent[p].method \in {"POST", "PATCH"} /\ sent[p].given # ValUndefined)
            /\ sent[p].body.present => sent[p].body.text = JsonStringify(sent[p].given)

\* C19: a download call never asks for a token, sends no Authorization
\* header and leaves the credential cache as it is; on a success status it
\* goes on to return the body text, on every other status it fails with
\* GraphApiError DOWNLOAD_FAILED carrying the status.
C19_RawDownload ==
    [][\A p \in Calls :
        (kind[p] = "download" /\ pc'[p] # pc[p]) =>
            /\ tokenCache' = tokenCache
            /\ tokenRequests'[p] = 0 /\ token'[p] = Undefined
            /\ pc'[p] \in {"rawFetch", "rawText", "returned", "threw"}
            /\ pc'[p] = "rawFetch" =>
                  (sent'[p].authorization = <<>> /\ sent'[p].url \in DownloadUrls)
            /\ pc'[p] = "rawText" => (pc[p] = "rawFetch" /\ InSuccessRange(status'[p]))
            /\ pc'[p] = "returned" =>
                  (pc[p] = "rawText" /\ \E text \in RawTexts : result'[p] = TextResult(text))
            /\ pc'[p] = "threw" =>
                  /\ pc[p] = "rawFetch"
                  /\ \/ error'[p] = TypeError(<<"fetch failed">>)
                     \/ /\ error'[p].name = "GraphApiError"
                        /\ error'[p].code = Str("DOWNLOAD_FAILED")
                        /\ ~InSuccessRange(error'[p].statusCode)]_vars
\* a download returned the text, or failed on a 404, while the cache holds
\* the Credential a getText call stored
C19_Witness ==
    \E p \in Calls :
        /\ kind[p] = "download" /\ tokenRequests[p] = 0 /\ graphCalls[p] = 1
        /\ \/ pc[p] = "returned" /\ result[p] = TextResult("WEBVTT")
           \/ pc[p] = "threw" /\ error[p].code = Str("DOWNLOAD_FAILED")
                              /\ error[p].statusCode = 404
        /\ tokenCache.present /\ lastWrite.by \in Calls \ {p}

\* C20: a getText call sends its fetch to the stable surface only after
\* getAccessToken returned, with that token as bearer and the accept header
\* the caller gave (text/vtt when none); on a success status it goes on to
\* return the body text, on every other status it fails with GraphApiError
\* GET_TEXT_FAILED carrying the status.
C20_RawText ==
    [][\A p \in Calls :
        (kind[p] = "getText" /\ pc'[p] # pc[p]) =>
            /\ pc'[p] = "rawFetch" =>
                  /\ pc[p] = "tokenReady" /\ graphCalls[p] = 0
                  /\ SubSeq(sent'[p].url, 1, 3) = GRAPH_BASE_URL
                  /\ sent'[p].url[4] = "/" /\ sent'[p].url[5] # "/"
                  /\ sent'[p].method = "GET"
                  /\ sent'[p].authorization =
                        <<"Bearer", IF token[p].t = "string" THEN token[p].s ELSE "undefined">>
                  /\ sent'[p].accept = IF sent'[p].given = ValUndefined
                                       THEN "text/vtt" ELSE sent'[p].given.s[1]
            /\ pc'[p] = "rawText" => (pc[p] = "rawFetch" /\ InSuccessRange(status'[p]))
            /\ pc'[p] = "returned" =>
                  (pc[p] = "rawText" /\ \E text \in RawTexts : result'[p] = TextResult(text))
            /\ (pc'[p] = "threw" /\ pc[p] = "rawFetch") =>
                  \/ error'[p] = TypeError(<<"fetch failed">>)
                  \/ /\ error'[p].name = "GraphApiError"
                     /\ error'[p].code = Str("GET_TEXT_FAILED")
                     /\ ~InSuccessRange(error'[p].statusCode)
            /\ (pc'[p] = "threw" /\ pc[p] # "rawFetch") =>
                  (error'[p].name = "AuthError" /\ graphCalls'[p] = 0)]_vars
\* a getText call given text/plain and an endpoint without leading slash
\* has its fetch in flight with the token it was issued
C20_Witness ==
    \E p \in Calls :
        /\ kind[p] = "getText" /\ pc[p] = "rawFetch" /\ tokenRequests[p] = 1
        /\ sent[p].url = GRAPH_BASE_URL \o <<"/", "me">>
        /\ sent[p].accept = "text/plain"
        /\ sent[p].authorization = <<"Bearer", IssuedToken(p)>>
\* a getText call failed on a 404
C20_WitnessFailed ==
    \E p \in Calls :
        /\ kind[p] = "getText" /\ pc[p] = "threw"
        /\ error[p].code = Str("GET_TEXT_FAILED") /\ error[p].statusCode = 404

\* C28: clearTokenCache leaves a call whose issuance request is outstanding
\* where it is; when the success response of such a call is processed the
\* call stores its Credential, and a getAccessToken call made while that
\* Credential is cached with more than 60 seconds left returns its token
\* without an issuance request.
C28_ClearDoesNotCancel ==
    [][\A p \in Calls :
        /\ (clearedInFlight'[p] /\ ~clearedInFlight[p]) =>
              /\ pc[p] \in {"tokenFetch", "tokenJson"}
              /\ pc'[p] = pc[p] /\ tokenRequests'[p] = tokenRequests[p]
              /\ ~tokenCache'.present
        /\ (clearedInFlight[p] /\ pc[p] = "tokenJson" /\ pc'[p] = "returned") =>
              /\ lastWrite'.by = p
              /\ tokenCache' = ExpectedCredential(lastWrite')
              /\ tokenCache'.accessToken = token'[p]
        /\ (/\ pc[p] = "idle" /\ pc'[p] # "idle"
            /\ lastWrite.by \in Calls /\ clearedInFlight[lastWrite.by] /\ ~cleared
            /\ MoreThanMarginLeft(tokenCache, now)) =>
              /\ pc'[p] = "returned"
              /\ token'[p] = token[lastWrite.by]
              /\ tokenRequests'[p] = 0]_vars
\* the cache was cleared while a call's issuance request was outstanding, the
\* call stored its token all the same, and another call got that token from
\* the cache without a request of its own
C28_Witness ==
    \E p, q \in Calls :
        /\ p # q /\ clearedInFlight[p] /\ lastWrite.by = p
        /\ pc[p] = "returned" /\ token[p] = Str(IssuedToken(p))
        /\ tokenCache.present /\ tokenCache.accessToken = token[p]
        /\ pc[q] = "returned" /\ tokenRequests[q] = 0 /\ token[q] = token[p]

\* C29: a getAccessToken call that sent an issuance request returns the
\* access_token of its own response, never a token issued to another call,
\* whatever the cache held when the response arrived; a call that sent none
\* returns the token of a Credential cached with more than 60 seconds left;
\* the value returned to a call stays what it was.
C29_OwnResponseToken ==
    [][\A p \in Calls :
        /\ (pc[p] = "tokenJson" /\ pc'[p] = "returned") =>
              /\ tokenRequests[p] = 1 /\ lastWrite'.by = p
              /\ token'[p] = lastWrite'.data.access_token
              /\ token'[p].t = "string" => token'[p].s = IssuedToken(p)
        /\ (pc[p] = "idle" /\ pc'[p] = "returned") =>
              /\ tokenRequests'[p] = 0
              /\ MoreThanMarginLeft(tokenCache, now)
              /\ token'[p] = tokenCache.accessToken
        /\ pc[p] = "returned" => token'[p] = token[p]]_vars
\* two calls each hold the token of their own response and a third holds the
\* token it read from the cache, which was the earlier writer's and was still
\* fresh when the later writer's response arrived
C29_Witness ==
    \E p, q, r \in Calls :
        /\ p # q /\ r \notin {p, q} /\ now = 0
        /\ pc[p] = "returned" /\ pc[q] = "returned" /\ pc[r] = "returned"
        /\ tokenRequests[p] = 1 /\ tokenRequests[q] = 1 /\ tokenRequests[r] = 0
        /\ token[p] = Str(IssuedToken(p)) /\ token[q] = Str(IssuedToken(q))
        /\ token[r] = token[q] /\ lastWrite.by = p
        /\ tokenCache.accessToken = token[p]

\* the names the registry lists, and the tool calls of a behaviour
Range(seq) == { seq[i] : i \in DOMAIN seq }
ToolCalls == DOMAIN invocation
IsRegistered(name) == name \in Range(registry.tools)
Answered(p) == pc[p] = "answered"

\* C21: a CallTool request whose name is not registered is answered at once
\* with isError and the text 'Error: Unknown tool: <name>'; no handler runs for
\* it, it sends no issuance request and no downstream call and leaves the
\* cache as it was.
C21_UnknownOperation ==
    \A p \in ToolCalls :
        (~IsRegistered(invocation[p].name) /\ pc[p] # "idle") =>
            /\ Answered(p)
            /\ toolResult[p] = ToolError(<<"Error: ", "Unknown tool: ", invocation[p].name>>)
            /\ tokenRequests[p] = 0 /\ graphCalls[p] = 0
            /\ tokenCache = NullCache

\* C27: the listed names are pairwise different, the listed names are exactly
\* the keys of the handlers object, every listed name looks up a handler
\* function of its own, and ListTools answers the domains' tools in the order
\* mail, calendar, files, tasks, teams, users.
C27_RegistryWellFormed ==
    /\ Cardinality(Range(registry.tools)) = Len(registry.tools)
    /\ Range(registry.tools) = DOMAIN registry.handlers
    /\ \A name \in Range(registry.tools) :
          GetHandler(registry.handlers, name).t = "handler"
    /\ Cardinality({ registry.handlers[name] : name \in DOMAIN registry.handlers })
          = Cardinality(DOMAIN registry.handlers)
    /\ listed # <<>> =>
          /\ listed = registry.tools
          /\ listed = mailTools \o calendarTools \o filesTools \o tasksTools \o teamsTools
                      \o usersTools
\* the tools were listed, and a call of a listed tool was answered by its
\* handler's text
C27_Witness ==
    /\ Len(listed) = 47
    /\ \E p \in ToolCalls :
          /\ Answered(p) /\ ~toolResult[p].isError
          /\ \E i \in DOMAIN listed : listed[i] = invocation[p].name

\* the claims' notion of a bag that violates a schema: the fields that are
\* required and omitted, of the wrong type, out of range or not an option
RequiredOmitted(field, v) == field.presence = "required" /\ v.t = "undefined"
WrongType(field, v) ==
    v.t # "undefined" /\ v.t # (IF field.type = "enum" THEN "string" ELSE field.type)
OutOfRange(field, v) ==
    /\ field.type = "number" /\ field.bounded /\ v.t = "number"
    /\ (v.n < field.min \/ v.n > field.max)
NotAnOption(field, v) == field.type = "enum" /\ v.t = "string" /\ v.s \notin field.options
Offending(schema, args) ==
    { schema[i].key : i \in { j \in DOMAIN schema :
        LET v == IF schema[j].key \in DOMAIN args THEN args[schema[j].key] ELSE ValUndefined
        IN  \/ RequiredOmitted(schema[j], v) \/ WrongType(schema[j], v)
            \/ OutOfRange(schema[j], v) \/ NotAnOption(schema[j], v) } }
DeclaredSchema(name) ==
    IF name \in DOMAIN AllHandlers THEN SchemaOf(AllHandlers[name]) ELSE <<>>
OffendingFields(p) == Offending(DeclaredSchema(invocation[p].name), invocation[p].args)

\* C22: a call of a registered tool whose arguments violate its schema ends
\* answered with isError, and the fields the text names are exactly the
\* offending ones (a list call with top = 0 names top).
C22_ValidationFailure ==
    \A p \in ToolCalls :
        (IsRegistered(invocation[p].name) /\ OffendingFields(p) # {}) =>
            /\ pc[p] \in {"idle", "threw", "answered"}
            /\ Answered(p) =>
                  /\ toolResult[p].isError
                  /\ { key \in Keys(DeclaredSchema(invocation[p].name)) :
                          Contains(toolResult[p].text, key) } = OffendingFields(p)
\* a list call with top = 0 and a folder that is not a string was answered
\* with an error text naming top
C22_Witness ==
    \E p \in ToolCalls :
        /\ invocation[p].name = "m365_mail_list"
        /\ invocation[p].args["top"] = ValNumber(0)
        /\ invocation[p].args["folder"] = ValNumber(5)
        /\ Answered(p) /\ toolResult[p].isError
        /\ Contains(toolResult[p].text, "top")

\* C23: no step of a call whose arguments violate the schema sends an
\* issuance request or a downstream call or changes the cache.
C23_ValidationBeforeIO ==
    [][\A p \in ToolCalls :
        (/\ IsRegistered(invocation[p].name) /\ OffendingFields(p) # {}
         /\ ~Answered(p)) =>
            /\ tokenCache' = tokenCache /\ lastWrite' = lastWrite
            /\ tokenRequests'[p] = 0 /\ graphCalls'[p] = 0
            /\ sent'[p] = NoRequest
            /\ pc'[p] \in {pc[p], "threw", "answered"}]_vars
\* a chat creation without members was refused while the cache held the
\* fresh Credential an earlier call had stored
C23_Witness ==
    \E p \in ToolCalls :
        /\ invocation[p].name = "m365_teams_create_chat"
        /\ invocation[p].args["members"] = ValUndefined
        /\ Answered(p) /\ toolResult[p].isError
        /\ tokenRequests[p] = 0 /\ graphCalls[p] = 0
        /\ tokenCache.present /\ MoreThanMarginLeft(tokenCache, now)

\* C24: every answered call of a registered tool carries either its
\* handler's text and no error flag, or isError and a one-line text whose
\* prefix tells the kind of the failure: 'Graph API Error (<status>): ...
\* [<code>]', 'Authentication Error: ', 'Validation Error: ... (field:
\* <field>)' for arguments that violate the schema, 'Error: ' otherwise; a
\* call that failed is answered by the catch clause and by nothing else.
C24_SingleCatchBoundary ==
    \A p \in {q \in ToolCalls : IsRegistered(invocation[q].name)} :
        /\ pc[p] \in {"idle", "tokenFetch", "tokenJson", "tokenReady", "graphFetch",
                      "graphText", "returned", "handled", "threw", "answered"}
        /\ (Answered(p) /\ ~toolResult[p].isError) =>
              /\ error[p].name = "none"
              /\ IsRegistered(invocation[p].name) /\ OffendingFields(p) = {}
        /\ (Answered(p) /\ toolResult[p].isError) =>
              /\ error[p].name # "none"
              /\ ~Contains(toolResult[p].text, "\n")
              /\ Head(toolResult[p].text) =
                    CASE error[p].name = "GraphApiError" -> "Graph API Error ("
                      [] error[p].name = "AuthError" -> "Authentication Error: "
                      [] IsRegistered(invocation[p].name) /\ OffendingFields(p) # {} ->
                            "Validation Error: "
                      [] OTHER -> "Error: "
              /\ error[p].name = "GraphApiError" =>
                    /\ Contains(toolResult[p].text, ToString(error[p].statusCode))
                    /\ error[p].code.t = "string" =>
                          Contains(toolResult[p].text, error[p].code.s)
              /\ (IsRegistered(invocation[p].name) /\ OffendingFields(p) # {}) =>
                    \E key \in OffendingFields(p) : Contains(toolResult[p].text, key)


\* the success text of teamsCreateChat says messageSent: true
ReportsMessageSent(text) ==
    \E i \in 1..(Len(text) - 1) : text[i] = "\"messageSent\": " /\ text[i + 1] = "true"
CreateChatCalls == { p \in ToolCalls : invocation[p].name = "m365_teams_create_chat" }

\* C30: in m365_teams_create_chat the message post (the second downstream
\* call) is made only after POST /chats has succeeded, for a supplied message
\* and a created chat that has an id; a success text says messageSent: true
\* only if the message post was made and succeeded; and a failed message post
\* is answered as an error.
C30_InitialMessage ==
    \A p \in CreateChatCalls :
        /\ graphCalls[p] = 2 =>
              /\ chat[p] = Payload("chat")
              /\ IsTruthy(ChatId(chat[p]))
              /\ IsTruthy(invocation[p].args["message"])
        /\ (Answered(p) /\ ~toolResult[p].isError /\ ReportsMessageSent(toolResult[p].text)) =>
              /\ graphCalls[p] = 2
              /\ error[p] = NoError /\ result[p].type \in {"data", "successMarker"}
        /\ (Answered(p) /\ graphCalls[p] = 2 /\ error[p] # NoError) =>
              /\ toolResult[p].isError
              /\ toolResult[p].text = FormatError(error[p])


\* the defaults the schemas declare, by tool
DeclaredDefaults(name) ==
    CASE name = "m365_mail_list" ->
            [folder |-> ValString(<<"inbox">>), top |-> ValNumber(10)]
      [] name = "m365_mail_reply" ->
            [replyAll |-> ValBoolean(FALSE)]
      [] name = "m365_mail_flag" ->
            [flagStatus |-> ValString(<<"flagged">>)]
      [] name = "m365_mail_mark_read" ->
            [isRead |-> ValBoolean(TRUE)]
      [] name = "m365_mail_folders" ->
            [top |-> ValNumber(25)]
      [] name = "m365_mail_search" ->
            [top |-> ValNumber(10)]
      [] name = "m365_calendar_list" ->
            [top |-> ValNumber(10)]
      [] name = "m365_calendar_create" ->
            [isOnline |-> ValBoolean(FALSE)]
      [] name = "m365_calendar_respond" ->
            [sendResponse |-> ValBoolean(TRUE)]
      [] name = "m365_calendar_find_meeting_times" ->
            [durationMinutes |-> ValNumber(60), maxCandidates |-> ValNumber(5)]
      [] name = "m365_files_list" ->
            [path |-> ValString(<<>>), top |-> ValNumber(20)]
      [] name = "m365_files_search" ->
            [top |-> ValNumber(10)]
      [] name = "m365_tasks_list" ->
            [top |-> ValNumber(20)]
      [] name = "m365_tasks_create" ->
            [importance |-> ValString(<<"normal">>)]
      [] name = "m365_teams_chats" ->
            [top |-> ValNumber(20)]
      [] name = "m365_teams_messages" ->
            [top |-> ValNumber(20)]
      [] name = "m365_meetings_list" ->
            [top |-> ValNumber(20)]
      [] name = "m365_call_records" ->
            [top |-> ValNumber(20)]
      [] name = "m365_users_list" ->
            [top |-> ValNumber(20)]
      [] name = "m365_users_search" ->
            [top |-> ValNumber(10)]
      [] OTHER -> <<>>
\* an omitted field that declares a default is to hold it, every other
\* key what was supplied for it
ExpectedValue(name, args, key) ==
    IF Supplied(args, key).t = "undefined" /\ key \in DOMAIN DeclaredDefaults(name)
    THEN DeclaredDefaults(name)[key] ELSE Supplied(args, key)
ValidCalls == { p \in ToolCalls : OffendingFields(p) = {} }

\* C26 as claimed: a bag that satisfies the schema is accepted, and the
\* validated input equals the supplied arguments, key for key, except for
\* the declared default in each omitted field that has one.
C26_InputAsSupplied ==
    \A p \in ValidCalls :
        /\ pc[p] # "threw"
        /\ pc[p] = "parsed" =>
              \A key \in DOMAIN invocation[p].args \cup DOMAIN validated[p] :
                  Supplied(validated[p], key)
                      = ExpectedValue(invocation[p].name, invocation[p].args, key)

\* C26: for every operation schema, a bag that satisfies it is accepted; the
\* validated input holds exactly the fields the schema declares, each with
\* the supplied value (an empty string and false included), or with the
\* declared default where the field was omitted and declares one (mail list:
\* folder inbox, top 10); a supplied key the schema does not declare is not
\* part of the validated input.
C26_Defaulting ==
    \A p \in ValidCalls :
        /\ pc[p] # "threw"
        /\ pc[p] = "parsed" =>
              /\ DOMAIN validated[p] = Keys(DeclaredSchema(invocation[p].name))
              /\ \A key \in DOMAIN validated[p] :
                    validated[p][key]
                        = ExpectedValue(invocation[p].name, invocation[p].args, key)
\* a mail list call that omitted folder and top and supplied the other
\* fields was parsed to folder inbox, top 10 and the other fields as supplied
C26_Witness ==
    \E p \in ToolCalls :
        /\ invocation[p].name = "m365_mail_list" /\ pc[p] = "parsed"
        /\ invocation[p].args["folder"] = ValUndefined
        /\ invocation[p].args["top"] = ValUndefined
        /\ invocation[p].args["user"] = SomeUser
        /\ validated[p]["folder"] = ValString(<<"inbox">>)
        /\ validated[p]["top"] = ValNumber(10)
        /\ validated[p]["user"] = SomeUser
        /\ DOMAIN validated[p] = {"user", "folder", "top", "filter"}


\* what one invocation holds of its own, and what a new one starts with

\* what an invocation holds of its own
Locals(p) ==
    <<pc[p], tokenOk[p], token[p], error[p], tokenRequests[p], graphCalls[p], sent[p],
      status[p], result[p], toolResult[p], Supplied(chat, p),
      Supplied(handlerResult, p), Supplied(observed, p)>>
SameRequest(p, q) ==
    /\ invocation[p].name = invocation[q].name
    /\ invocation[p].args = invocation[q].args
\* two answered invocations of the same name and arguments that received the
\* same token-endpoint and Graph responses in the same order (a getAccessToken
\* call served from the cache receives none) were answered alike
SameOutcome ==
    \A p, q \in ToolCalls :
        (Answered(p) /\ Answered(q) /\ SameRequest(p, q) /\ observed[p] = observed[q]) =>
            toolResult[p] = toolResult[q]

\* C25: no step changes the registry (it is allTools and allHandlers as built
\* at load) or the configuration; a step changes what one invocation holds at
\* most, also while another invocation is suspended, so that invocations
\* share the credential cache alone; and the answer of an invocation is
\* determined by its name, its arguments and the responses it received, where
\* the cache decides only whether it had to ask the token endpoint.
C25_Stateless ==
    [][/\ registry = Registry /\ registry' = registry
       /\ defaultUser' = defaultUser
       /\ \A p, q \in ToolCalls :
             p # q => (Locals(p)' = Locals(p) \/ Locals(q)' = Locals(q))
       /\ SameOutcome']_vars
\* while one invocation was still suspended in its Graph call, another was
\* answered from the Credential the first had stored, with no issuance
\* request of its own
C25_Witness ==
    \E p, q \in ToolCalls :
        /\ p # q /\ pc[p] = "graphFetch" /\ tokenRequests[p] = 1
        /\ lastWrite.by = p
        /\ Answered(q) /\ ~toolResult[q].isError
        /\ tokenRequests[q] = 0 /\ graphCalls[q] = 1

=============================================================================
